---- MODULE Spec2Model ----
(***************************************************************************)
(* Conversational memory and context assembly of AI-Desktop-Pet.           *)
(*                                                                         *)
(* The module holds nine specifications over one set of variables:         *)
(*   SpecCadence  ProfileManager.should_update_profile as a function of    *)
(*                the conversation count                                   *)
(*   SpecMerge    ProfileManager.update_profile_from_ai / save_profile on  *)
(*                one profile                                              *)
(*   SpecApi      the FastAPI server (backend/app/main.py)                 *)
(*   SpecDesktop  the desktop session (src/main.py, DesktopPetApp)         *)
(*   Spec         one process that is either of the two                    *)
(*   SpecLongRun  the desktop session with its proactive timer and its     *)
(*                restarts                                                 *)
(*   SpecExtract  ProfileExtractor on one model outcome                    *)
(*   SpecWindow   get_relevant_history on one history and message          *)
(*   SpecPrompt   build_system_prompt on one character and profile         *)
(* A specification leaves the variables of the others at their initial     *)
(* values.                                                                 *)
(***************************************************************************)
EXTENDS Integers, Sequences, FiniteSets, TLC

VARIABLES
    cCount,        \* SpecCadence: profile.conversation_count under test
    cAsked,        \* SpecCadence: should_update_profile() has been called for cCount
    cDue,          \* SpecCadence: what that call returned
    mProfile,      \* SpecMerge: ProfileManager.profile (in memory)
    mFile,         \* SpecMerge: content of the profile file (last successful write)
    mLast,         \* SpecMerge: argument of the last update_profile_from_ai call
    mWrote,        \* SpecMerge: that call reached save_profile
    mReturned,     \* SpecMerge: what that call returned
    mode,          \* Spec: the entry point that runs, "api" or "desktop"
    user_instances,\* api: the dict user_instances, user id -> index into aObjs (0: no key)
    aObjs,         \* api: the instance dicts constructed for each user id, in order
    aProfileFile,  \* api: data/users/<dir>/user_profile.json
    aChroma,       \* api: collection conversation_memory of data/users/<dir>/chromadb
    aReq,          \* api: the request handlers, each with its position
    aEnv,          \* api: which constructors work on this machine
    aChats,        \* api: chat requests received so far
    dHistory,      \* desktop: self.conversation_history
    dHistFile,     \* desktop: content of conversation_history.json
    dProfile,      \* desktop: self.profile_manager.profile
    dProfFile,     \* desktop: content of data/user_profile.json
    dMemory,       \* desktop: collection conversation_memory of data/chromadb
    dEnv,          \* desktop: which of vector_store, profile_manager, ai_provider
                   \*          and profile_extractor are not None, and whether
                   \*          conversation_history.json can be written
    dWorkers,      \* desktop: the AIWorker threads that run, oldest first
    dUpdates,      \* desktop: the ProfileUpdateWorker threads that run
    dShown,        \* desktop: what chat_ui.add_message has displayed since start
    dSent,         \* desktop: messages the user has sent
    dAlive,        \* desktop: the process has not aborted
    dProactive,    \* desktop: the ProactiveWorker threads that run
    eCall,         \* SpecExtract: the last call into ProfileExtractor
    eResult,       \* SpecExtract: what that call returned or raised
    wCall,         \* SpecWindow: the last call of get_relevant_history
    wResult,       \* SpecWindow: the list that call returned
    pCall,         \* SpecPrompt: the last call of build_system_prompt
    pResult        \* SpecPrompt: the parts that call joined

cadenceVars == <<cCount, cAsked, cDue>>
mergeVars == <<mProfile, mFile, mLast, mWrote, mReturned>>
apiVars == <<user_instances, aObjs, aProfileFile, aChroma, aReq, aEnv, aChats>>
deskVars ==
    <<dHistory, dHistFile, dProfile, dProfFile, dMemory, dEnv, dWorkers, dUpdates,
      dShown, dSent, dAlive, dProactive>>
sessionVars == <<mode, apiVars, deskVars>>
extractVars == <<eCall, eResult>>
windowVars == <<wCall, wResult>>
promptVars == <<pCall, pResult>>
pureVars == <<extractVars, windowVars, promptVars>>
vars == <<cadenceVars, mergeVars, sessionVars, pureVars>>

----------------------------------------------------------------------------
(* Bounds of the model.                                                    *)

\* counts below zero that SpecCadence starts from
CountsBelowZero == 3
\* largest conversation count SpecCadence reaches
MaxCount == 90
\* largest logical timestamp save_profile hands out in SpecMerge
MaxStamp == 2
\* request handlers of the API server that exist at a time
MaxReqs == 2
\* chat requests the API server receives
MaxChats == 5
\* messages the user of the desktop session sends
MaxSends == 3
\* AIWorker threads of the desktop session that run at a time
MaxInFlight == 2
\* the most ProactiveWorker threads that run at a time
MaxProactive == 1

----------------------------------------------------------------------------
(* Python values.                                                          *)

\* None, as a value distinct from every text
None == "<None>"

\* False and 0, as values distinct from every text
PyFalse == "<False>"
PyZero == "<0>"

\* True, as a value distinct from every text
PyTrue == "<True>"

\* bool(x) for the values the profile code tests with "if x"
Truthy(x) == x \notin {None, "", PyFalse, PyZero}

\* x in list
Contains(list, x) == \E i \in 1..Len(list) : list[i] = x

\* the empty dict
EmptyDict == [k \in {} |-> ""]

----------------------------------------------------------------------------
(* ProfileManager.should_update_profile                                    *)

should_update_tier_ends_before_50(count) ==
    IF count <= 0 THEN FALSE
    ELSE IF count <= 20 THEN count % 5 = 0
    ELSE IF count < 50 THEN count % 10 = 0
    ELSE count % 15 = 0

should_update_every_15_after_50(count) ==
    IF count <= 0 THEN FALSE
    ELSE IF count <= 20 THEN count % 5 = 0
    ELSE IF count <= 50 THEN count % 10 = 0
    ELSE (count - 50) % 15 = 0

should_update_profile(count) ==
    IF count <= 0 THEN FALSE
    ELSE IF count <= 20 THEN count % 5 = 0
    ELSE IF count <= 50 THEN count % 10 = 0
    ELSE count % 15 = 0

----------------------------------------------------------------------------
(* UserProfile and ProfileManager.update_profile_from_ai                   *)

\* UserProfile.__init__ without data; last_updated is a logical timestamp
NewUserProfile ==
    [name |-> None,
     personality_traits |-> <<>>,
     preferences |-> EmptyDict,
     goals |-> <<>>,
     important_dates |-> EmptyDict,
     facts |-> <<>>,
     conversation_count |-> 0,
     last_updated |-> 0]

\* the loop "for x in items: if x and x not in list: list.append(x)"
RECURSIVE AppendNewNoDedup(_, _)
AppendNewNoDedup(list, items) ==
    IF items = <<>> THEN list
    ELSE AppendNewNoDedup(
             IF Truthy(Head(items)) THEN Append(list, Head(items)) ELSE list,
             Tail(items))

\* a variant that tests every item against the list as it was before the loop
AppendNewSkipsKnown(list, items) ==
    list \o SelectSeq(items, LAMBDA x : Truthy(x) /\ ~Contains(list, x))

RECURSIVE AppendNew(_, _)
AppendNew(list, items) ==
    IF items = <<>> THEN list
    ELSE AppendNew(
             IF Truthy(Head(items)) /\ ~Contains(list, Head(items))
             THEN Append(list, Head(items))
             ELSE list,
             Tail(items))

\* the keys the loop "for key, value in new.items(): if key and value: ..."
\* assigns: absent from d or stored with another value
AssignedKeys(d, new) ==
    {k \in DOMAIN new :
        Truthy(k) /\ Truthy(new[k]) /\ (k \notin DOMAIN d \/ d[k] # new[k])}

\* d after that loop
MergeDict(d, new) ==
    [k \in DOMAIN d \cup AssignedKeys(d, new) |->
        IF k \in AssignedKeys(d, new) THEN new[k] ELSE d[k]]

\* the field of the extraction dict, or dflt when the key is missing
Field(data, key, dflt) == IF key \in DOMAIN data THEN data[key] ELSE dflt

\* a variant whose first block assigns the name whenever one was extracted
MergedFieldsNameOverwrites(p, data) ==
    [p EXCEPT
        !.name = IF Truthy(Field(data, "name", None)) THEN data["name"] ELSE @,
        !.personality_traits = AppendNew(@, Field(data, "personality_traits", <<>>)),
        !.preferences = MergeDict(@, Field(data, "preferences", EmptyDict)),
        !.goals = AppendNew(@, Field(data, "goals", <<>>)),
        !.important_dates = MergeDict(@, Field(data, "important_dates", EmptyDict)),
        !.facts = AppendNew(@, Field(data, "facts", <<>>))]

\* the profile fields after the six blocks of update_profile_from_ai
MergedFields(p, data) ==
    [p EXCEPT
        !.name = IF Truthy(Field(data, "name", None)) /\ ~Truthy(p.name)
                 THEN data["name"] ELSE @,
        !.personality_traits = AppendNew(@, Field(data, "personality_traits", <<>>)),
        !.preferences = MergeDict(@, Field(data, "preferences", EmptyDict)),
        !.goals = AppendNew(@, Field(data, "goals", <<>>)),
        !.important_dates = MergeDict(@, Field(data, "important_dates", EmptyDict)),
        !.facts = AppendNew(@, Field(data, "facts", <<>>))]

\* the local flag "updated" at the end of update_profile_from_ai: set by the
\* name assignment, by every append and by every dict assignment
Updated(p, data) ==
    \/ Truthy(Field(data, "name", None)) /\ ~Truthy(p.name)
    \/ AppendNew(p.personality_traits, Field(data, "personality_traits", <<>>))
           # p.personality_traits
    \/ AssignedKeys(p.preferences, Field(data, "preferences", EmptyDict)) # {}
    \/ AppendNew(p.goals, Field(data, "goals", <<>>)) # p.goals
    \/ AssignedKeys(p.important_dates, Field(data, "important_dates", EmptyDict)) # {}
    \/ AppendNew(p.facts, Field(data, "facts", <<>>)) # p.facts

\* save_profile: the timestamp is refreshed before the file is opened, the
\* write itself may fail (the exception is caught and logged)
Stamped(p) == [p EXCEPT !.last_updated = @ + 1]

\* a variant that counts a turn twice
increment_conversation_count_by_two(p) == [p EXCEPT !.conversation_count = @ + 2]

\* ProfileManager.increment_conversation_count
increment_conversation_count(p) == [p EXCEPT !.conversation_count = @ + 1]

\* the profile in memory after update_profile_from_ai(data)
update_profile_from_ai(p, data) ==
    IF Updated(p, data) THEN Stamped(MergedFields(p, data)) ELSE MergedFields(p, data)

\* the value of the call update_profile_from_ai(data): the function has no
\* return statement
update_profile_from_ai_returns(p, data) == None

----------------------------------------------------------------------------
(* Extraction results fed to the merge.                                    *)

\* the dict _validate_extraction returns: all six keys present
Validated(n, t, p, g, d, f) ==
    [name |-> n, personality_traits |-> t, preferences |-> p,
     goals |-> g, important_dates |-> d, facts |-> f]

\* _get_empty_extraction
EmptyExtraction == Validated(None, <<>>, EmptyDict, <<>>, EmptyDict, <<>>)

NameGoalExtractions ==
    {Validated(n, <<>>, EmptyDict, g, EmptyDict, <<>>) :
        n \in {None, "Alex", "Sam"},
        g \in {<<>>, <<"learn guitar">>, <<"learn guitar", "learn guitar">>,
               <<"run a marathon", "learn guitar">>}}

TraitFactExtractions ==
    {Validated(None, t, EmptyDict, <<>>, EmptyDict, f) :
        t \in {<<"creative">>, <<"", "creative">>},
        f \in {<<>>, <<"has a cat">>}}

DictExtractions ==
    {Validated(None, <<>>, p, <<>>, d, <<>>) :
        p \in {EmptyDict, [music |-> "indie rock"], [music |-> "jazz"],
               [music |-> None], [k \in {""} |-> "jazz"],
               [music |-> "jazz", vegetarian |-> PyFalse]},
        d \in {EmptyDict, [birthday |-> "1995-03-15"]}}

\* dicts that lack keys, as callers other than the extractor may pass
PartialExtractions ==
    {[name |-> "Alex", goals |-> <<"learn guitar">>],
     [facts |-> <<"has a cat">>]}

Extractions ==
    NameGoalExtractions \cup TraitFactExtractions \cup DictExtractions
        \cup PartialExtractions

----------------------------------------------------------------------------
(* The values the variables of a specification keep while another runs.    *)

InitIdleCadence == cCount = 0 /\ cAsked = FALSE /\ cDue = FALSE

\* no call was made yet
NoCall == [op |-> "none"]

InitIdleExtract == eCall = NoCall /\ eResult = None
InitIdleWindow == wCall = NoCall /\ wResult = <<>>
InitIdlePrompt == pCall = NoCall /\ pResult = <<>>
InitIdlePure == InitIdleExtract /\ InitIdleWindow /\ InitIdlePrompt

InitIdleMerge ==
    /\ mProfile = NewUserProfile
    /\ mFile = [exists |-> FALSE, data |-> NewUserProfile]
    /\ mLast = [some |-> FALSE, data |-> EmptyExtraction]
    /\ mWrote = FALSE
    /\ mReturned = None

InitIdleDesktop ==
    /\ dHistory = <<>>
    /\ dHistFile = <<>>
    /\ dProfile = NewUserProfile
    /\ dProfFile = [exists |-> FALSE, data |-> NewUserProfile]
    /\ dMemory = <<>>
    /\ dEnv = [vector_store |-> FALSE, profile_manager |-> FALSE,
               ai_provider |-> FALSE, profile_extractor |-> FALSE,
               history_writable |-> FALSE]
    /\ dWorkers = <<>>
    /\ dUpdates = 0
    /\ dShown = <<>>
    /\ dSent = 0
    /\ dAlive = TRUE
    /\ dProactive = 0

----------------------------------------------------------------------------
(* Conversation turns, shared by the API server and the desktop session.   *)

\* conversation_history keeps at most this many turns
HistoryLimit == 20

\* {"role": ..., "content": ...}; "proactive" is read with .get(..., False)
Turn(role, content) == [role |-> role, content |-> content, proactive |-> FALSE]

\* a variant that keeps one item more
LastNAndOneMore(list, n) ==
    IF Len(list) > n + 1 THEN SubSeq(list, Len(list) - n, Len(list)) ELSE list

\* list[-n:]
LastN(list, n) ==
    IF Len(list) > n THEN SubSeq(list, Len(list) - n + 1, Len(list)) ELSE list

\* what the provider answers to a message
Reply(m) == CASE m = "m1" -> "reply to m1" [] m = "m2" -> "reply to m2"

\* the metadata add_conversation stores with a document
MemoryEntry(user_message, ai_response) ==
    [user_message |-> user_message, ai_response |-> ai_response]

\* what the extraction's model call yields: an exception or unparsable text
\* (ok = FALSE), or a validated dict
SessionExtractions ==
    {EmptyExtraction,
     Validated("Alex", <<>>, EmptyDict, <<"learn guitar">>, EmptyDict, <<>>)}

ExtractOutcomes ==
    {[ok |-> FALSE, data |-> EmptyExtraction]}
        \cup {[ok |-> TRUE, data |-> d] : d \in SessionExtractions}

\* ProfileExtractor.extract_user_info: every exception ends in the empty
\* extraction
extract_user_info(outcome) == IF outcome.ok THEN outcome.data ELSE EmptyExtraction

----------------------------------------------------------------------------
(* The API server, backend/app/main.py.                                    *)

\* user ids as the path segments "/" separates: "ann", "bob" and "bob/"
Ann == <<"ann">>
Bob == <<"bob">>
BobSlash == <<"bob", "">>
UserIds == {Ann, Bob, BobSlash}

\* project_root / "data" / "users" / user_id: pathlib drops the empty and
\* the "." segments of the joined path
UserDir(u) == SelectSeq(u, LAMBDA seg : seg # "" /\ seg # ".")

Dirs == {UserDir(u) : u \in UserIds}

ApiMessages == {"m1"}

NoFile == [exists |-> FALSE, data |-> NewUserProfile]

\* a handler: its position, the request (kind "chat" or "read", user, msg),
\* the instance it holds, the calls of the turn that raised and, once chat has
\* returned, the response: the status, the body and whether the turn called
\* extract_user_info
IdleReq ==
    [pc |-> "idle", kind |-> "none", user |-> <<>>, msg |-> "none", inst |-> 0,
     failed |-> {}, status |-> 0, body |-> "none", extracted |-> FALSE]

InitIdleApi ==
    /\ user_instances = [u \in UserIds |-> 0]
    /\ aObjs = [u \in UserIds |-> <<>>]
    /\ aProfileFile = [d \in Dirs |-> NoFile]
    /\ aChroma = [d \in Dirs |-> <<>>]
    /\ aReq = [r \in 1..MaxReqs |-> IdleReq]
    /\ aEnv = [vector_store |-> TRUE, profile_manager |-> TRUE]
    /\ aChats = 0

\* a variant: handlers that run in a thread pool ("def" handlers) start
\* while others run
LoopRunsHandlersInThreads == TRUE

\* chat, get_conversation and get_profile are coroutines ("async def") whose
\* bodies hold no await: the event loop runs a handler from its first line to
\* its return before it starts another
LoopIsFree == \A r \in 1..MaxReqs : aReq[r].pc = "idle"

\* the instance dict a running handler holds
InstanceOf(r) == aObjs[aReq[r].user][aReq[r].inst]

\* the handler's turn is AwaitingModel for its user
AwaitingModel(u) ==
    \E r \in 1..MaxReqs : aReq[r].pc = "awaiting_model" /\ aReq[r].user = u

\* get_user_instance, "if user_id not in user_instances" (line 72), at the
\* head of chat (kind "chat") and of get_conversation and get_profile (kind
\* "read")
ApiBegin(r, kind, u, m) ==
    /\ mode = "api"
    /\ LoopIsFree
    /\ aReq[r].pc = "idle"
    /\ \A q \in 1..(r - 1) : aReq[q].pc # "idle"
    /\ kind = "chat" => aChats < MaxChats
    /\ aChats' = IF kind = "chat" THEN aChats + 1 ELSE aChats
    /\ aReq' = [aReq EXCEPT ![r] =
            [IdleReq EXCEPT
                !.pc = IF user_instances[u] = 0 THEN "create"
                       ELSE IF kind = "chat" THEN "submit" ELSE "read",
                !.kind = kind, !.user = u, !.msg = m, !.inst = user_instances[u]]]
    /\ UNCHANGED <<cadenceVars, mergeVars, pureVars, mode, deskVars,
                   user_instances, aObjs, aProfileFile, aChroma, aEnv>>

\* ProfileManager._load_profile
LoadedProfile(file) == IF file.exists THEN file.data ELSE NewUserProfile

\* get_user_instance, lines 73-160: construct the instance, store it under
\* the user id and return the stored one; a constructor of VectorMemoryStore
\* or ProfileManager that raises leaves None in the instance
ApiCreateInstance(r) ==
    /\ aReq[r].pc = "create"
    /\ LET u == aReq[r].user
           instance ==
               [conversation_history |-> <<>>,
                vector_store |-> aEnv.vector_store,
                profile_manager |-> aEnv.profile_manager,
                profile |-> LoadedProfile(aProfileFile[UserDir(u)])]
       IN /\ aObjs' = [aObjs EXCEPT ![u] = Append(@, instance)]
          /\ user_instances' = [user_instances EXCEPT ![u] = Len(aObjs[u]) + 1]
          /\ aReq' = [aReq EXCEPT
                 ![r].inst = Len(aObjs[u]) + 1,
                 ![r].pc = IF aReq[r].kind = "chat" THEN "submit" ELSE "read"]
    /\ UNCHANGED <<cadenceVars, mergeVars, pureVars, mode, deskVars,
                   aProfileFile, aChroma, aEnv, aChats>>

\* an exception of collection.query leaves search_relevant_conversations
\* (vector_store.py lines 126-157) or the try of build_system_prompt (lines
\* 262-282)
SearchEscapes(searchOk) == FALSE

\* chat, lines 363-384: append the user turn, build the prompt (the memory
\* search included), select the window and call generate_response, which
\* blocks the handler
ApiChatSubmit(r, searchOk) ==
    /\ aReq[r].pc = "submit"
    /\ LET u == aReq[r].user
           i == aReq[r].inst
           searches == aObjs[u][i].vector_store
           searchRaised == searches /\ ~searchOk /\ SearchEscapes(searchOk)
       IN /\ aObjs' = [aObjs EXCEPT ![u][i].conversation_history =
                           Append(@, Turn("user", aReq[r].msg))]
          /\ aReq' = [aReq EXCEPT ![r] =
                 IF searchRaised
                 THEN [@ EXCEPT !.pc = "returned", !.status = 500,
                                !.body = "Internal server error",
                                !.failed = {"search"}]
                 ELSE [@ EXCEPT !.pc = "awaiting_model",
                                !.failed = IF searches /\ ~searchOk
                                           THEN {"search"} ELSE {}]]
    /\ UNCHANGED <<cadenceVars, mergeVars, pureVars, mode, deskVars,
                   user_instances, aProfileFile, aChroma, aEnv, aChats>>

\* a variant without the two try blocks
AddEscapesUncaught(addOk) == ~addOk

\* an exception of collection.add leaves add_conversation (lines 83-108) or
\* the try around its call in chat (lines 396-399)
AddEscapes(addOk) == FALSE

\* an exception of the extraction or the merge leaves the try of chat
\* (lines 405-411)
ProfileUpdateEscapes(mergeOk) == FALSE

\* chat, lines 385-421: generate_response returned
ApiModelReturns(r, addOk, outcome, mergeOk, saveOk) ==
    /\ aReq[r].pc = "awaiting_model"
    /\ LET u == aReq[r].user
           i == aReq[r].inst
           obj == InstanceOf(r)
           dir == UserDir(u)
           response == Reply(aReq[r].msg)
           h1 == Append(obj.conversation_history, Turn("assistant", response))
           adds == obj.vector_store /\ Len(h1) >= 2
           addRaised == adds /\ ~addOk /\ AddEscapes(addOk)
           p1 == IF obj.profile_manager /\ ~addRaised
                 THEN increment_conversation_count(obj.profile)
                 ELSE obj.profile
           due == /\ obj.profile_manager
                  /\ ~addRaised
                  /\ should_update_profile(p1.conversation_count)
           data == extract_user_info(outcome)
           merges == due /\ mergeOk
           updateRaised == due /\ ~mergeOk /\ ProfileUpdateEscapes(mergeOk)
           p2 == IF merges THEN update_profile_from_ai(p1, data) ELSE p1
           writes == merges /\ Updated(p1, data) /\ saveOk
           raised == addRaised \/ updateRaised
           h2 == IF raised THEN h1 ELSE LastN(h1, HistoryLimit)
           failures ==
               {f \in {"add", "extract", "merge", "save"} :
                   \/ f = "add" /\ adds /\ ~addOk
                   \/ f = "extract" /\ due /\ ~outcome.ok
                   \/ f = "merge" /\ due /\ ~mergeOk
                   \/ f = "save" /\ merges /\ Updated(p1, data) /\ ~saveOk}
       IN /\ aObjs' = [aObjs EXCEPT ![u][i] =
                  [@ EXCEPT !.conversation_history = h2, !.profile = p2]]
          /\ aChroma' = IF adds /\ addOk
                        THEN [aChroma EXCEPT ![dir] =
                                 Append(@, MemoryEntry(h1[Len(h1) - 1].content, response))]
                        ELSE aChroma
          /\ aProfileFile' = IF writes
                             THEN [aProfileFile EXCEPT ![dir] =
                                      [exists |-> TRUE, data |-> p2]]
                             ELSE aProfileFile
          /\ aReq' = [aReq EXCEPT ![r] =
                 [@ EXCEPT
                     !.pc = "returned",
                     !.status = IF raised THEN 500 ELSE 200,
                     !.body = IF raised THEN "Internal server error" ELSE response,
                     !.failed = @ \cup failures,
                     !.extracted = due]]
    /\ UNCHANGED <<cadenceVars, mergeVars, pureVars, mode, deskVars,
                   user_instances, aEnv, aChats>>

\* chat, lines 423-424: generate_response raised
ApiModelRaises(r) ==
    /\ aReq[r].pc = "awaiting_model"
    /\ aReq' = [aReq EXCEPT ![r] =
           [@ EXCEPT !.pc = "returned", !.status = 500,
                     !.body = "Internal server error",
                     !.failed = @ \cup {"model"}]]
    /\ UNCHANGED <<cadenceVars, mergeVars, pureVars, mode, deskVars,
                   user_instances, aObjs, aProfileFile, aChroma, aEnv, aChats>>

\* get_conversation (lines 427-434) and get_profile (lines 437-456) return
ApiReadReturns(r) ==
    /\ aReq[r].pc = "read"
    /\ aReq' = [aReq EXCEPT ![r] = IdleReq]
    /\ UNCHANGED <<cadenceVars, mergeVars, pureVars, mode, deskVars,
                   user_instances, aObjs, aProfileFile, aChroma, aEnv, aChats>>

\* chat has returned or raised: the server sends the response and the
\* handler is gone
ApiRespond(r) ==
    /\ aReq[r].pc = "returned"
    /\ aReq' = [aReq EXCEPT ![r] = IdleReq]
    /\ UNCHANGED <<cadenceVars, mergeVars, pureVars, mode, deskVars,
                   user_instances, aObjs, aProfileFile, aChroma, aEnv, aChats>>

NextApi ==
    \E r \in 1..MaxReqs :
        \/ \E u \in UserIds, m \in ApiMessages : ApiBegin(r, "chat", u, m)
        \/ \E u \in UserIds : ApiBegin(r, "read", u, "none")
        \/ ApiCreateInstance(r)
        \/ \E searchOk \in BOOLEAN : ApiChatSubmit(r, searchOk)
        \/ \E addOk, mergeOk, saveOk \in BOOLEAN, outcome \in ExtractOutcomes :
               ApiModelReturns(r, addOk, outcome, mergeOk, saveOk)
        \/ ApiModelRaises(r)
        \/ ApiReadReturns(r)
        \/ ApiRespond(r)

InitIdleSession == mode = "none" /\ InitIdleApi /\ InitIdleDesktop

\* the machines the server runs on: both constructors of get_user_instance
\* work, or one of them raises
ApiEnvs ==
    {[vector_store |-> TRUE, profile_manager |-> TRUE],
     [vector_store |-> FALSE, profile_manager |-> TRUE],
     [vector_store |-> TRUE, profile_manager |-> FALSE]}

\* the server process after import: no instance yet; the data directory is as
\* an earlier run left it
InitApi ==
    /\ InitIdlePure
    /\ InitIdleCadence
    /\ InitIdleMerge
    /\ mode = "api"
    /\ user_instances = [u \in UserIds |-> 0]
    /\ aObjs = [u \in UserIds |-> <<>>]
    /\ aProfileFile \in [Dirs -> {NoFile}]
    /\ aChroma = [d \in Dirs |-> <<>>]
    /\ aReq = [r \in 1..MaxReqs |-> IdleReq]
    /\ aEnv \in ApiEnvs
    /\ aChats = 0
    /\ InitIdleDesktop

SpecApi == InitApi /\ [][NextApi]_vars

----------------------------------------------------------------------------
(* The desktop session, src/main.py (DesktopPetApp).                       *)

DeskMessages == {"m1", "m2"}

\* _show_main_window, lines 140-147, with the personality the setup saved
welcome_msg == "Hello! I'm ready to chat with you."

\* AIWorker.run: the texts of error_occurred
NotInitialized == "AI provider not initialized. Please check your API key in settings."

ModelError == "Error: the call raised"

\* _on_ai_error, line 554: f"Sorry, I encountered an error: {error}"
error_msg(error) ==
    CASE error = NotInitialized ->
             "Sorry, I encountered an error: AI provider not initialized. Please check your API key in settings."
      [] error = ModelError ->
             "Sorry, I encountered an error: Error: the call raised"

\* n exchanges of the message "m1" and its reply
RECURSIVE Exchanges(_)
Exchanges(n) ==
    IF n = 0 THEN <<>>
    ELSE Exchanges(n - 1) \o <<Turn("user", "m1"), Turn("assistant", Reply("m1"))>>

RECURSIVE Memories(_)
Memories(n) ==
    IF n = 0 THEN <<>>
    ELSE Append(Memories(n - 1), MemoryEntry("m1", Reply("m1")))

\* the data directory before the first run
FirstRun ==
    [history |-> <<>>,
     profile |-> [exists |-> FALSE, data |-> NewUserProfile],
     memory |-> <<>>]

\* the data directory an earlier run left: nine completed turns after the
\* welcome, and the profile the ProfileUpdateWorker of the fifth turn saved
\* when the count had reached nine
EarlierRun ==
    LET count == 9
    IN [history |-> <<Turn("assistant", welcome_msg)>> \o Exchanges(count),
        profile |->
            [exists |-> TRUE,
             data |-> [NewUserProfile EXCEPT
                          !.name = "Alex",
                          !.goals = <<"learn guitar">>,
                          !.conversation_count = count,
                          !.last_updated = 1]],
        memory |-> Memories(count)]

\* a variant that writes the list it is given
save_conversation_history_untrimmed(history, file, writeOk) ==
    IF writeOk THEN history ELSE file

\* ConfigManager.save_conversation_history: the file keeps the last 20 turns;
\* a write that fails (_save_json, IOError) leaves the file as it was
save_conversation_history(history, file, writeOk) ==
    IF writeOk THEN LastN(history, HistoryLimit) ELSE file

\* the machines the desktop session runs on: everything works, or one of the
\* constructors of __init__ raised, or no API key is configured
\* (_init_ai_provider, lines 170-174), or the history file cannot be written
DeskWorks ==
    [vector_store |-> TRUE, profile_manager |-> TRUE, ai_provider |-> TRUE,
     profile_extractor |-> TRUE, history_writable |-> TRUE]

DeskEnvs ==
    {DeskWorks,
     [DeskWorks EXCEPT !.vector_store = FALSE],
     [DeskWorks EXCEPT !.profile_manager = FALSE, !.profile_extractor = FALSE],
     [DeskWorks EXCEPT !.ai_provider = FALSE, !.profile_extractor = FALSE],
     [DeskWorks EXCEPT !.history_writable = FALSE]}

\* ConfigManager.load_conversation_history
load_conversation_history(file) == LastN(file, HistoryLimit)

\* a variant that finds no user turn
LastUserMessageNone(history) == ""

\* _on_ai_response, lines 521-525: the content of the last user turn, ""
\* when there is none
LastUserMessage(history) ==
    LET users == {k \in 1..Len(history) : history[k].role = "user"}
    IN IF users = {} THEN ""
       ELSE history[CHOOSE k \in users : \A j \in users : j <= k].content

RemoveAt(list, i) == SubSeq(list, 1, i - 1) \o SubSeq(list, i + 1, Len(list))

Shown(text, is_user) == [text |-> text, is_user |-> is_user]

\* the model calls in flight: the workers whose provider is not None
CallsInFlight == {i \in 1..Len(dWorkers) : dWorkers[i].provider}

\* a QThread that runs while no Python reference holds it: every AIWorker
\* but the one self.ai_worker names (line 319 rebinds it), and every
\* ProfileUpdateWorker (a local of _update_user_profile, line 754), and every
\* ProactiveWorker but the one self.proactive_worker names (line 687)
UnreferencedThreadRuns ==
    \/ dUpdates > 0
    \/ dProactive > 1
    \/ \E i \in 1..Len(dWorkers) : dWorkers[i].id # dSent

\* _on_message_sent, lines 258-327
DeskSend(m, searchOk) ==
    /\ mode = "desktop"
    /\ dAlive
    /\ dSent < MaxSends
    /\ Len(dWorkers) < MaxInFlight
    /\ dSent' = dSent + 1
    /\ dShown' = Append(dShown, Shown(m, TRUE))
    /\ LET h1 == Append(dHistory, Turn("user", m))
           searches == dEnv.vector_store
           searchRaised == searches /\ ~searchOk /\ SearchEscapes(searchOk)
       IN /\ dHistory' = h1
          /\ dHistFile' = save_conversation_history(h1, dHistFile, dEnv.history_writable)
          /\ dWorkers' = IF searchRaised THEN dWorkers
                         ELSE Append(dWorkers,
                                  [id |-> dSent + 1, msg |-> m,
                                   provider |-> dEnv.ai_provider])
    /\ UNCHANGED <<cadenceVars, mergeVars, pureVars, mode, apiVars,
                   dProfile, dProfFile, dMemory, dEnv, dUpdates, dAlive, dProactive>>

\* _on_ai_response, lines 499-549: worker i emitted response_ready
DeskResponse(i, addOk) ==
    /\ mode = "desktop"
    /\ dAlive
    /\ i \in CallsInFlight
    /\ LET response == Reply(dWorkers[i].msg)
           h1 == Append(dHistory, Turn("assistant", response))
           user_msg == LastUserMessage(dHistory)
           adds == dEnv.vector_store /\ Len(h1) >= 2 /\ Truthy(user_msg)
           addRaised == adds /\ ~addOk /\ AddEscapes(addOk)
           p1 == IF dEnv.profile_manager /\ ~addRaised
                 THEN increment_conversation_count(dProfile)
                 ELSE dProfile
           due == /\ dEnv.profile_manager
                  /\ ~addRaised
                  /\ should_update_profile(p1.conversation_count)
           starts == due /\ dEnv.profile_extractor
           h2 == IF addRaised THEN h1 ELSE LastN(h1, HistoryLimit)
       IN /\ dShown' = Append(dShown, Shown(response, FALSE))
          /\ dHistory' = h2
          /\ dMemory' = IF adds /\ addOk
                        THEN Append(dMemory, MemoryEntry(user_msg, response))
                        ELSE dMemory
          /\ dProfile' = p1
          /\ dUpdates' = IF starts THEN dUpdates + 1 ELSE dUpdates
          /\ dHistFile' = IF addRaised THEN dHistFile
                          ELSE save_conversation_history(h2, dHistFile, dEnv.history_writable)
    /\ dWorkers' = RemoveAt(dWorkers, i)
    /\ UNCHANGED <<cadenceVars, mergeVars, pureVars, mode, apiVars,
                   dProfFile, dEnv, dSent, dAlive, dProactive>>

\* _on_ai_error, lines 551-559: worker i emitted error_occurred, because it
\* has no provider or because generate_response raised
DeskError(i) ==
    /\ mode = "desktop"
    /\ dAlive
    /\ i \in 1..Len(dWorkers)
    /\ LET error == IF dWorkers[i].provider THEN ModelError ELSE NotInitialized
           h1 == Append(dHistory, Turn("assistant", error_msg(error)))
       IN /\ dShown' = Append(dShown, Shown(error_msg(error), FALSE))
          /\ dHistory' = h1
          /\ dHistFile' = save_conversation_history(h1, dHistFile, dEnv.history_writable)
    /\ dWorkers' = RemoveAt(dWorkers, i)
    /\ UNCHANGED <<cadenceVars, mergeVars, pureVars, mode, apiVars,
                   dProfile, dProfFile, dMemory, dEnv, dUpdates, dSent, dAlive, dProactive>>

\* ProfileUpdateWorker.run, lines 745-752: the extraction and the merge, in
\* a try that catches every exception
DeskProfileUpdate(outcome, mergeOk, saveOk) ==
    /\ mode = "desktop"
    /\ dAlive
    /\ dUpdates > 0
    /\ LET data == extract_user_info(outcome)
           p2 == IF mergeOk THEN update_profile_from_ai(dProfile, data) ELSE dProfile
           writes == mergeOk /\ Updated(dProfile, data) /\ saveOk
       IN /\ dProfile' = p2
          /\ dProfFile' = IF writes THEN [exists |-> TRUE, data |-> p2] ELSE dProfFile
    /\ dUpdates' = dUpdates - 1
    /\ UNCHANGED <<cadenceVars, mergeVars, pureVars, mode, apiVars,
                   dHistory, dHistFile, dMemory, dEnv, dWorkers, dShown, dSent, dAlive,
                   dProactive>>

\* the QThread of a running worker is destroyed when its last Python
\* reference goes: Qt aborts the process, unless the thread ends first. What
\* the process held in memory is gone, the files stay
DeskThreadDestroyed ==
    /\ mode = "desktop"
    /\ dAlive
    /\ UnreferencedThreadRuns
    /\ dAlive' = FALSE
    /\ dHistory' = <<>>
    /\ dProfile' = NewUserProfile
    /\ dWorkers' = <<>>
    /\ dUpdates' = 0
    /\ dShown' = <<>>
    /\ dProactive' = 0
    /\ UNCHANGED <<cadenceVars, mergeVars, pureVars, mode, apiVars,
                   dHistFile, dProfFile, dMemory, dEnv, dSent>>

NextDesktop ==
    \/ \E m \in DeskMessages, searchOk \in BOOLEAN : DeskSend(m, searchOk)
    \/ \E i \in 1..MaxInFlight, addOk \in BOOLEAN : DeskResponse(i, addOk)
    \/ \E i \in 1..MaxInFlight : DeskError(i)
    \/ \E outcome \in ExtractOutcomes, mergeOk, saveOk \in BOOLEAN :
           DeskProfileUpdate(outcome, mergeOk, saveOk)
    \/ DeskThreadDestroyed

\* DesktopPetApp.__init__ (lines 26-70) and _show_main_window (lines 106-158):
\* the history is loaded from its file and, when empty, starts with the
\* welcome, which is saved
InitDesktop ==
    /\ InitIdlePure
    /\ InitIdleCadence
    /\ InitIdleMerge
    /\ InitIdleApi
    /\ mode = "desktop"
    /\ dEnv \in DeskEnvs
    /\ \E run \in {FirstRun, EarlierRun} :
           LET loaded == load_conversation_history(run.history)
               history == IF loaded = <<>> THEN <<Turn("assistant", welcome_msg)>>
                          ELSE loaded
           IN /\ dHistory = history
              /\ dHistFile = history
              /\ dProfFile = run.profile
              /\ dProfile = IF dEnv.profile_manager THEN LoadedProfile(run.profile)
                            ELSE NewUserProfile
              /\ dMemory = run.memory
    /\ dWorkers = <<>>
    /\ dUpdates = 0
    /\ dShown = <<>>
    /\ dSent = 0
    /\ dAlive = TRUE
    /\ dProactive = 0

SpecDesktop == InitDesktop /\ [][NextDesktop]_vars

----------------------------------------------------------------------------
(* Spec: the process is the API server or the desktop session.             *)

Init == InitApi \/ InitDesktop

Next == NextApi \/ NextDesktop

Spec == Init /\ [][Next]_vars

----------------------------------------------------------------------------
(* SpecLongRun: the desktop session with its proactive timer, over         *)
(* restarts of the program.                                                *)

\* what the ProactiveWorker's model call returns
check_in == "How are you doing?"

\* _on_proactive_message, lines 702-706: the turn with the marker
ProactiveTurn == [role |-> "assistant", content |-> check_in, proactive |-> TRUE]

\* _check_and_initiate_proactive_conversation, lines 606-625, on a timeout
\* of the QTimer that finds the interval passed since the last user message,
\* and _initiate_proactive_conversation, lines 627-695: a ProactiveWorker
\* starts unless the last turn is a proactive one. How long a model call
\* runs against the interval of the timer is not fixed
DeskTimerFires ==
    /\ mode = "desktop"
    /\ dAlive
    /\ dEnv.ai_provider
    /\ dProactive < MaxProactive
    /\ ~(/\ dHistory # <<>>
         /\ dHistory[Len(dHistory)].role = "assistant"
         /\ dHistory[Len(dHistory)].proactive)
    /\ dProactive' = dProactive + 1
    /\ UNCHANGED <<cadenceVars, mergeVars, pureVars, mode, apiVars,
                   dHistory, dHistFile, dProfile, dProfFile, dMemory, dEnv, dWorkers,
                   dUpdates, dShown, dSent, dAlive>>

\* _on_proactive_message, lines 697-715: a ProactiveWorker emitted
\* message_ready
DeskProactiveMessage ==
    /\ mode = "desktop"
    /\ dAlive
    /\ dProactive > 0
    /\ LET h1 == Append(dHistory, ProactiveTurn)
       IN /\ dShown' = Append(dShown, Shown(check_in, FALSE))
          /\ dHistory' = h1
          /\ dHistFile' = save_conversation_history(h1, dHistFile, dEnv.history_writable)
    /\ dProactive' = dProactive - 1
    /\ UNCHANGED <<cadenceVars, mergeVars, pureVars, mode, apiVars,
                   dProfile, dProfFile, dMemory, dEnv, dWorkers, dUpdates, dSent, dAlive>>

\* _on_proactive_error, lines 717-721: a ProactiveWorker emitted
\* error_occurred
DeskProactiveError ==
    /\ mode = "desktop"
    /\ dAlive
    /\ dProactive > 0
    /\ dProactive' = dProactive - 1
    /\ UNCHANGED <<cadenceVars, mergeVars, pureVars, mode, apiVars,
                   dHistory, dHistFile, dProfile, dProfFile, dMemory, dEnv, dWorkers,
                   dUpdates, dShown, dSent, dAlive>>

\* the program is started again, after the user quit it or after it
\* aborted at any point between two handlers: __init__ (lines 26-70) and _show_main_window (lines 106-158) on
\* the files the last run left; the threads of that run are gone
DeskRestart ==
    /\ mode = "desktop"
    /\ LET loaded == load_conversation_history(dHistFile)
           history == IF loaded = <<>> THEN <<Turn("assistant", welcome_msg)>>
                      ELSE loaded
       IN /\ dHistory' = history
          /\ dHistFile' = IF loaded = <<>>
                          THEN save_conversation_history(history, dHistFile,
                                                         dEnv.history_writable)
                          ELSE dHistFile
    /\ dProfile' = IF dEnv.profile_manager THEN LoadedProfile(dProfFile)
                   ELSE NewUserProfile
    /\ dWorkers' = <<>>
    /\ dUpdates' = 0
    /\ dProactive' = 0
    /\ dShown' = <<>>
    /\ dAlive' = TRUE
    /\ UNCHANGED <<cadenceVars, mergeVars, pureVars, mode, apiVars,
                   dProfFile, dMemory, dEnv, dSent>>

\* the turns of the session with searches, adds and saves that succeed and
\* extractions that find nothing
NextLongRun ==
    \/ DeskSend("m1", TRUE)
    \/ \E i \in 1..MaxInFlight : DeskResponse(i, TRUE)
    \/ \E i \in 1..MaxInFlight : DeskError(i)
    \/ DeskProfileUpdate([ok |-> FALSE], TRUE, TRUE)
    \/ DeskTimerFires
    \/ DeskProactiveMessage
    \/ DeskProactiveError
    \/ DeskRestart

\* the session starts on a machine where everything works
InitLongRun == InitDesktop /\ dEnv = DeskWorks

SpecLongRun == InitLongRun /\ [][NextLongRun]_vars

\* C27: whenever the session of a user is Idle, no model call of a turn in
\* flight, the history in memory holds at most 20 turns, after any sequence
\* of Completed turns, Failed turns and proactive messages.
C27_IdleHistoryAtMostTwenty ==
    /\ (mode = "desktop" /\ dAlive /\ dWorkers = <<>>) => Len(dHistory) <= HistoryLimit
    /\ \A u \in UserIds :
           (mode = "api" /\ user_instances[u] # 0 /\ ~AwaitingModel(u)) =>
               Len(aObjs[u][user_instances[u]].conversation_history) <= HistoryLimit

\* the last turn of the history is a proactive assistant turn
LastIsProactive ==
    /\ dHistory # <<>>
    /\ dHistory[Len(dHistory)].role = "assistant"
    /\ dHistory[Len(dHistory)].proactive

\* C30: the history never holds two proactive assistant turns without a user
\* turn between them, and no proactive check-in is initiated while the last
\* turn is a proactive assistant turn, however timer firings, completions
\* of proactive workers and user messages interleave.
C30_ProactiveTurnsSeparatedByUser ==
    /\ [](\A i \in 1..Len(dHistory), j \in 1..Len(dHistory) :
             (i < j /\ dHistory[i].proactive /\ dHistory[j].proactive) =>
                 \E k \in (i + 1)..(j - 1) : dHistory[k].role = "user")
    /\ [][dProactive' > dProactive => ~LastIsProactive]_vars

----------------------------------------------------------------------------
(* Properties of the sessions, checked under Spec.                         *)

\* list[-1]
Last(list) == list[Len(list)]

\* the texts _on_ai_error displays
ErrorTexts == {error_msg(NotInitialized), error_msg(ModelError)}

\* the step in which generate_response of handler r returns, and the step in
\* which it raises
ModelReturned(r) ==
    /\ aReq[r].pc = "awaiting_model"
    /\ aReq'[r].pc # "awaiting_model"
    /\ "model" \notin aReq'[r].failed

ModelRaised(r) ==
    /\ aReq[r].pc = "awaiting_model"
    /\ aReq'[r].pc # "awaiting_model"
    /\ "model" \in aReq'[r].failed

\* C1 as stated: when the model call of a turn fails, one assistant turn that
\* carries an error message is appended to the user's history directly after
\* the user's turn, and the message is not sent to the model again; in the
\* API chat endpoint and in the desktop session.
C1_FailedTurnAppendsErrorTurn ==
    [][/\ \A r \in 1..MaxReqs :
              ModelRaised(r) =>
                  LET u == aReq[r].user
                      i == aReq[r].inst
                  IN /\ Len(aObjs'[u][i].conversation_history) =
                            Len(aObjs[u][i].conversation_history) + 1
                     /\ Last(aObjs'[u][i].conversation_history).role = "assistant"
                     /\ ~AwaitingModel(u)'
       /\ \A i \in 1..MaxInFlight :
              DeskError(i) =>
                  /\ Len(dHistory') = Len(dHistory) + 1
                  /\ Last(dHistory').role = "assistant"
                  /\ Last(dHistory').content \in ErrorTexts
                  /\ Len(dWorkers') = Len(dWorkers) - 1
      ]_vars

\* C2 as stated: at most one model call per user is in flight at any time,
\* in the API server and in the desktop session.
C2_OneModelCallInFlight ==
    /\ \A u \in UserIds :
           Cardinality({r \in 1..MaxReqs :
                           aReq[r].pc = "awaiting_model" /\ aReq[r].user = u}) <= 1
    /\ Cardinality(CallsInFlight) <= 1

\* C3: get_user_instance constructs at most one instance for a user id,
\* however the requests for the id arrive, and every handler past
\* get_user_instance holds the instance that user_instances names: none is
\* constructed and then dropped.
C3_OneContextPerUser ==
    \A u \in UserIds :
        /\ Len(aObjs[u]) <= 1
        /\ user_instances[u] = Len(aObjs[u])
        /\ \A r \in 1..MaxReqs :
               (aReq[r].user = u /\ aReq[r].pc \notin {"idle", "create"}) =>
                   (aReq[r].inst = 1 /\ user_instances[u] = 1)

\* C3 witness: a second chat of the same user runs on the instance the first
\* one created
C3_Witness ==
    \E r \in 1..MaxReqs :
        /\ aReq[r].pc = "awaiting_model"
        /\ aReq[r].user = Bob
        /\ Len(aObjs[Bob]) = 1
        /\ Len(aObjs[Bob][1].conversation_history) = 3

\* C4 as stated: while the turn of one user awaits the model, the server
\* (as long as it takes requests at all) can take up a chat of another user.
C4_OtherUsersProgress ==
    \A a \in UserIds :
        (/\ AwaitingModel(a)
         /\ aChats < MaxChats
         /\ \E r \in 1..MaxReqs : aReq[r].pc = "idle") =>
            \E b \in UserIds \ {a}, r \in 1..MaxReqs, m \in ApiMessages :
                ENABLED ApiBegin(r, "chat", b, m)

\* the user a step of handler r works for
StepUser(r) == IF aReq[r].pc = "idle" THEN aReq'[r].user ELSE aReq[r].user

\* C5 as stated: a step the server takes for user A (instance creation, a chat
\* turn, a read) leaves the history, the profile and the memory entries of
\* every other user B unchanged.
C5_OtherUsersUntouched ==
    [][\A r \in 1..MaxReqs, b \in UserIds :
           (mode = "api" /\ aReq'[r] # aReq[r] /\ StepUser(r) # b) =>
               /\ aObjs'[b] = aObjs[b]
               /\ aProfileFile'[UserDir(b)] = aProfileFile[UserDir(b)]
               /\ aChroma'[UserDir(b)] = aChroma[UserDir(b)]
      ]_vars

\* C6: a turn whose model call succeeded hands the generated response to the
\* user whatever fails of the memory search, the memory add, the extraction,
\* the merge and the profile or history write; a user-visible error comes
\* only from a failed model call.
C6_FailuresKeepTheResponse ==
    [][/\ \A r \in 1..MaxReqs :
              aReq[r].pc = "submit" =>
                  \A searchOk \in BOOLEAN :
                      ApiChatSubmit(r, searchOk) => aReq'[r].pc = "awaiting_model"
       /\ \A r \in 1..MaxReqs :
              (ModelReturned(r) /\ aReq'[r].pc = "returned") =>
                  /\ aReq'[r].status = 200
                  /\ aReq'[r].body = Reply(aReq[r].msg)
                  /\ Last(aObjs'[aReq[r].user][aReq[r].inst].conversation_history)
                         = Turn("assistant", Reply(aReq[r].msg))
       /\ \A r \in 1..MaxReqs :
              (aReq[r].pc # "returned" /\ aReq'[r].pc = "returned"
                   /\ aReq'[r].status = 500) => ModelRaised(r)
       /\ mode = "desktop" =>
              /\ \A m \in DeskMessages, searchOk \in BOOLEAN :
                     DeskSend(m, searchOk) => Len(dWorkers') = Len(dWorkers) + 1
              /\ \A i \in 1..MaxInFlight, addOk \in BOOLEAN :
                     DeskResponse(i, addOk) =>
                         /\ dShown' = Append(dShown, Shown(Reply(dWorkers[i].msg), FALSE))
                         /\ Last(dHistory') = Turn("assistant", Reply(dWorkers[i].msg))
              /\ (dAlive' /\ Len(dShown') > Len(dShown)
                      /\ Last(dShown').text \in ErrorTexts) =>
                     \E i \in 1..MaxInFlight : DeskError(i)
      ]_vars

\* C6 witness: a chat returned 200 with the reply although the memory add,
\* the extraction and the merge of the turn failed
C6_Witness ==
    \E r \in 1..MaxReqs :
        /\ aReq[r].pc = "returned"
        /\ aReq[r].status = 200
        /\ aReq[r].body = Reply(aReq[r].msg)
        /\ aReq[r].failed = {"search", "add", "extract", "merge"}

\* C7: a Completed turn adds exactly one to conversation_count, also when the
\* extraction of the turn fails; a Failed turn leaves the count; and the
\* turn starts the extraction exactly when should_update_profile holds for
\* the count it has just reached. (Of the sessions that have a profile
\* manager: without one there is no count.)
C7_CompletedTurnCounts ==
    [][/\ \A r \in 1..MaxReqs :
              (aReq[r].pc = "awaiting_model" /\ InstanceOf(r).profile_manager) =>
                  LET count == InstanceOf(r).profile.conversation_count
                      profile == aObjs'[aReq[r].user][aReq[r].inst].profile
                  IN /\ ModelReturned(r) =>
                            /\ profile.conversation_count = count + 1
                            /\ aReq'[r].extracted <=> should_update_profile(count + 1)
                     /\ ModelRaised(r) => profile = InstanceOf(r).profile
       /\ (mode = "desktop" /\ dEnv.profile_manager) =>
              /\ \A i \in 1..MaxInFlight, addOk \in BOOLEAN :
                     DeskResponse(i, addOk) =>
                         /\ dProfile'.conversation_count =
                                dProfile.conversation_count + 1
                         /\ (dUpdates' = dUpdates + 1) <=>
                                should_update_profile(dProfile.conversation_count + 1)
                         /\ dUpdates' \in {dUpdates, dUpdates + 1}
              /\ \A i \in 1..MaxInFlight :
                     DeskError(i) => (dProfile' = dProfile /\ dUpdates' = dUpdates)
      ]_vars

\* C7 witness: the fifth Completed turn of a user called the extraction,
\* which failed, and the count is five
C7_Witness ==
    \E r \in 1..MaxReqs :
        /\ aReq[r].pc = "returned"
        /\ aReq[r].status = 200
        /\ aReq[r].extracted
        /\ "extract" \in aReq[r].failed
        /\ InstanceOf(r).profile.conversation_count = 5

\* C29: the memory entry written when a turn completes holds the assistant
\* response together with the user message whose model call produced it,
\* whatever the order in which sends and responses interleave.
C29_MemoryPairsResponseWithItsMessage ==
    /\ \A i \in 1..Len(dMemory) :
           dMemory[i].ai_response = Reply(dMemory[i].user_message)
    /\ \A d \in DOMAIN aChroma : \A i \in 1..Len(aChroma[d]) :
           aChroma[d][i].ai_response = Reply(aChroma[d][i].user_message)

\* the profile files, and the profiles in memory that are saved to each: the
\* profile of the desktop session, or of the instances user_instances names
ProfileFiles == IF mode = "desktop" THEN {"desktop"} ELSE Dirs

FileOf(d) == IF mode = "desktop" THEN dProfFile ELSE aProfileFile[d]

InMemoryProfiles(d) ==
    IF mode = "desktop"
    THEN IF dAlive /\ dEnv.profile_manager THEN {dProfile} ELSE {}
    ELSE {aObjs[u][user_instances[u]].profile :
            u \in {v \in UserIds : /\ UserDir(v) = d
                                   /\ user_instances[v] # 0
                                   /\ aObjs[v][user_instances[v]].profile_manager}}

C25_ExtractionEndsBeforeNextTurn ==
    [][(dUpdates > 0 /\ dAlive') =>
           /\ dSent' = dSent
           /\ dProfile'.conversation_count = dProfile.conversation_count]_vars

----------------------------------------------------------------------------
(* SpecCadence: the cadence policy over a range of counts.                 *)

InitCadence ==
    /\ cCount \in (0 - CountsBelowZero)..MaxCount
    /\ cAsked = FALSE
    /\ cDue = FALSE
    /\ InitIdleMerge
    /\ InitIdleSession
    /\ InitIdlePure

\* profile_manager.should_update_profile()
CadenceAsk ==
    /\ ~cAsked
    /\ cAsked' = TRUE
    /\ cDue' = should_update_profile(cCount)
    /\ UNCHANGED <<cCount, mergeVars, sessionVars, pureVars>>

\* profile_manager.increment_conversation_count()
CadenceIncrement ==
    /\ cCount < MaxCount
    /\ cCount' = cCount + 1
    /\ cAsked' = FALSE
    /\ cDue' = FALSE
    /\ UNCHANGED <<mergeVars, sessionVars, pureVars>>

NextCadence == CadenceAsk \/ CadenceIncrement

SpecCadence == InitCadence /\ [][NextCadence]_vars

\* C8 as stated: should_update is true at the counts 5, 10, 15, 20, 30, 40,
\* 50, 65 and 80 and false at the counts 1, 2, 3, 4, 21 and 55.
C8_TrueAt65And80 ==
    cAsked =>
        /\ cCount \in {5, 10, 15, 20, 30, 40, 50, 65, 80} => cDue
        /\ cCount \in {1, 2, 3, 4, 21, 55} => ~cDue

\* C8 as amended: should_update is true at the counts 5, 10, 15, 20, 30, 40
\* and 50 and false at the counts 1, 2, 3, 4, 21, 55, 65 and 80 (above 50
\* the policy fires at the multiples of 15: 60, 75, 90).
C8_CadenceTable ==
    cAsked =>
        /\ cCount \in {5, 10, 15, 20, 30, 40, 50} => cDue
        /\ cCount \in {1, 2, 3, 4, 21, 55, 65, 80} => ~cDue

C8_Witness == cAsked /\ cCount = 65 /\ ~cDue

\* C9: for every count, should_update is false when count <= 0, equals
\* (count mod 5 = 0) for 1..20, (count mod 10 = 0) for 21..50 and
\* (count mod 15 = 0) above 50.
C9_PiecewiseModulo ==
    cAsked =>
        /\ cCount <= 0 => ~cDue
        /\ cCount \in 1..20 => (cDue <=> cCount % 5 = 0)
        /\ cCount \in 21..50 => (cDue <=> cCount % 10 = 0)
        /\ cCount > 50 => (cDue <=> cCount % 15 = 0)

C9_Witness == cAsked /\ cCount = 50 /\ cDue

----------------------------------------------------------------------------
(* SpecMerge: update_profile_from_ai and save_profile on one profile.      *)

InitMerge == InitIdleCadence /\ InitIdleMerge /\ InitIdleSession /\ InitIdlePure

\* update_profile_from_ai(data); writeOk: the file write in save_profile
\* succeeds
MergeApply(data, writeOk) ==
    /\ Updated(mProfile, data) => mProfile.last_updated < MaxStamp
    /\ mProfile' = update_profile_from_ai(mProfile, data)
    /\ mWrote' = Updated(mProfile, data)
    /\ mFile' = IF Updated(mProfile, data) /\ writeOk
                THEN [exists |-> TRUE, data |-> mProfile']
                ELSE mFile
    /\ mLast' = [some |-> TRUE, data |-> data]
    /\ mReturned' = update_profile_from_ai_returns(mProfile, data)
    /\ UNCHANGED <<cadenceVars, sessionVars, pureVars>>

NextMerge == \E data \in Extractions, writeOk \in BOOLEAN : MergeApply(data, writeOk)

SpecMerge == InitMerge /\ [][NextMerge]_vars

\* C10: applying the extraction that was applied last once more changes no
\* profile field and writes nothing; from the empty profile the extraction
\* {name: Alex, goals: [learn guitar]} gives name Alex and goals
\* [learn guitar].
C10_ReapplyChangesNothing ==
    [][/\ (mLast.some /\ \E ok \in BOOLEAN : MergeApply(mLast.data, ok))
            => (mProfile' = mProfile /\ mFile' = mFile /\ ~mWrote')
       /\ (/\ mProfile = NewUserProfile
           /\ \E ok \in BOOLEAN :
                  MergeApply([name |-> "Alex", goals |-> <<"learn guitar">>], ok))
            => (/\ mProfile'.name = "Alex"
                /\ mProfile'.goals = <<"learn guitar">>)]_vars

\* the example extraction was applied twice in a row
C10_Witness ==
    /\ mLast = [some |-> TRUE,
                data |-> [name |-> "Alex", goals |-> <<"learn guitar">>]]
    /\ ~mWrote
    /\ mProfile.name = "Alex"
    /\ mProfile.goals = <<"learn guitar">>
    /\ mProfile.last_updated = 1

\* the three list fields and the two mapping fields of the profile
ListFields == {"personality_traits", "goals", "facts"}
DictFields == {"preferences", "important_dates"}

NoDuplicates(list) ==
    \A i \in 1..Len(list), j \in 1..Len(list) : list[i] = list[j] => i = j

\* the positions of items that hold an item new to list at its first
\* appearance
FirstAppearances(list, items) ==
    {i \in 1..Len(items) :
        /\ Truthy(items[i])
        /\ ~Contains(list, items[i])
        /\ \A j \in 1..(i - 1) : items[j] # items[i]}

\* after is before followed by the new items of items, each once, in the
\* order of their first appearance
AppendedInOrder(before, items, after) ==
    LET new == FirstAppearances(before, items) IN
    /\ Len(after) = Len(before) + Cardinality(new)
    /\ SubSeq(after, 1, Len(before)) = before
    /\ \A i \in new :
           after[Len(before) + Cardinality({j \in new : j <= i})] = items[i]

\* C11: from the empty profile, after every apply, personality_traits, goals
\* and facts hold no duplicate, the items they held keep their position, and
\* the new items are appended in order of first appearance.
C11_ListsAppendOnlyNoDuplicates ==
    [][\A f \in ListFields :
          /\ NoDuplicates(mProfile'[f])
          /\ AppendedInOrder(mProfile[f], Field(mLast'.data, f, <<>>),
                             mProfile'[f])]_vars

\* an extraction that repeats a goal inside its list was applied and stored
\* the goal once
C11_Witness ==
    /\ mLast.some /\ mWrote
    /\ "goals" \in DOMAIN mLast.data
    /\ mLast.data.goals = <<"learn guitar", "learn guitar">>
    /\ mProfile.name = None
    /\ mProfile.goals = <<"learn guitar">>

\* C12: apply sets the name only while the profile has none; once the profile
\* has a name no apply changes it.
C12_NameSetOnceOnly ==
    [][/\ Truthy(mProfile.name) => mProfile'.name = mProfile.name
       /\ mProfile'.name # mProfile.name
            => /\ ~Truthy(mProfile.name)
               /\ mProfile'.name = Field(mLast'.data, "name", None)]_vars

\* an extraction naming Sam was applied to the profile of Alex
C12_Witness ==
    /\ mLast.some
    /\ "name" \in DOMAIN mLast.data
    /\ mLast.data.name = "Sam"
    /\ mProfile.name = "Alex"

\* C13: for preferences and important_dates apply stores every extracted
\* entry whose key and value are neither empty nor null (inserting or
\* overwriting), ignores the other entries and leaves every other key as it
\* was.
C13_EntriesInsertedOrOverwritten ==
    [][\A f \in DictFields :
          LET new == Field(mLast'.data, f, EmptyDict)
              kept == {k \in DOMAIN new :
                          k \notin {None, ""} /\ new[k] \notin {None, ""}}
          IN
          /\ DOMAIN mProfile'[f] = DOMAIN mProfile[f] \cup kept
          /\ \A k \in kept : mProfile'[f][k] = new[k]
          /\ \A k \in DOMAIN mProfile[f] \ kept :
                 mProfile'[f][k] = mProfile[f][k]]_vars

\* the profile fields an extraction can change
MergedFieldNames ==
    {"name", "personality_traits", "preferences", "goals", "important_dates",
     "facts"}

FieldChanged == \E f \in MergedFieldNames : mProfile'[f] # mProfile[f]

\* C14: apply returns whether a field changed; when one changed last_updated
\* is refreshed and the profile in memory is the profile on disk; when none
\* changed last_updated and the file stay as they were.
C14_ReturnsChangedAndPersists ==
    [][/\ mReturned' = IF FieldChanged THEN PyTrue ELSE PyFalse
       /\ FieldChanged
            => /\ mProfile'.last_updated > mProfile.last_updated
               /\ mFile' = [exists |-> TRUE, data |-> mProfile']
       /\ ~FieldChanged
            => /\ mProfile'.last_updated = mProfile.last_updated
               /\ mFile' = mFile]_vars

----------------------------------------------------------------------------
(* SpecExtract: ProfileExtractor on one model outcome, and                 *)
(* _validate_extraction on one parsed object.                              *)

\* the longest response, in lexical units
MaxTokens == 5

\* the values json.loads returns, each with its Python type
JNull == [type |-> "null", text |-> "", items |-> <<>>, members |-> EmptyDict]
JString(t) == [type |-> "string", text |-> t, items |-> <<>>, members |-> EmptyDict]
JNumber(t) == [type |-> "number", text |-> t, items |-> <<>>, members |-> EmptyDict]
JBool(t) == [type |-> "boolean", text |-> t, items |-> <<>>, members |-> EmptyDict]
JArray(items) == [type |-> "array", text |-> "", items |-> items, members |-> EmptyDict]
JObject(members) == [type |-> "object", text |-> "", items |-> <<>>, members |-> members]

\* bool(v)
JTruthy(v) ==
    CASE v.type = "null" -> FALSE
      [] v.type = "string" -> v.text # ""
      [] v.type = "number" -> v.text # "0"
      [] v.type = "boolean" -> v.text = "true"
      [] v.type = "array" -> v.items # <<>>
      [] v.type = "object" -> DOMAIN v.members # {}

\* the lexical units of a response: the fence marker with and without
\* "json", the brackets, the member key "name" with its colon (and the comma
\* before it), and the string "Alex"
FenceJson == "<fence json>"
Fence == "<fence>"
KeyName == "<key name>"
StrAlex == "<string Alex>"
Tokens == {FenceJson, Fence, "{", "}", "[", "]", KeyName, StrAlex}

RECURSIVE SeqsUpTo(_, _)
SeqsUpTo(S, n) ==
    IF n = 0 THEN {<<>>}
    ELSE LET shorter == SeqsUpTo(S, n - 1) IN
         shorter \cup {Append(q, x) : q \in {r \in shorter : Len(r) = n - 1}, x \in S}

\* what the model call of extract_user_info gives: an exception, or a text
ModelOutcomes ==
    {[raises |-> TRUE, response |-> <<>>]}
        \cup {[raises |-> FALSE, response |-> r] : r \in SeqsUpTo(Tokens, MaxTokens)}

\* a scan that failed (json.JSONDecodeError)
DecodeError == [ok |-> FALSE, value |-> JNull, next |-> 0]

\* the JSON grammar over the lexical units: the value that starts at position
\* i, and the position after it
RECURSIVE ParseValue(_, _), ParseItems(_, _, _), ParseMembers(_, _, _)
ParseValue(t, i) ==
    IF i > Len(t) THEN DecodeError
    ELSE CASE t[i] = StrAlex -> [ok |-> TRUE, value |-> JString("Alex"), next |-> i + 1]
           [] t[i] = "[" -> ParseItems(t, i + 1, <<>>)
           [] t[i] = "{" -> ParseMembers(t, i + 1, EmptyDict)
           [] OTHER -> DecodeError

ParseItems(t, i, acc) ==
    IF i > Len(t) THEN DecodeError
    ELSE IF t[i] = "]" THEN [ok |-> TRUE, value |-> JArray(acc), next |-> i + 1]
    ELSE LET v == ParseValue(t, i) IN
         IF v.ok THEN ParseItems(t, v.next, Append(acc, v.value)) ELSE DecodeError

ParseMembers(t, i, acc) ==
    IF i > Len(t) THEN DecodeError
    ELSE IF t[i] = "}" THEN [ok |-> TRUE, value |-> JObject(acc), next |-> i + 1]
    ELSE IF t[i] = KeyName
    THEN LET v == ParseValue(t, i + 1) IN
         IF v.ok
         THEN ParseMembers(t, v.next,
                  [k \in DOMAIN acc \cup {"name"} |->
                      IF k = "name" THEN v.value ELSE acc[k]])
         ELSE DecodeError
    ELSE DecodeError

\* json.loads: one value and nothing after it
json_loads(t) ==
    LET v == ParseValue(t, 1) IN
    IF v.ok /\ v.next = Len(t) + 1 THEN v ELSE DecodeError

\* the first brace at or after position i (0: none)
NextBrace(t, i) ==
    LET braces == {j \in i..Len(t) : t[j] \in {"{", "}"}} IN
    IF braces = {} THEN 0 ELSE CHOOSE j \in braces : \A k \in braces : j <= k

\* the first regular expression (an object whose members may hold objects
\* that hold none) from an opening brace on: j is the first brace after it; the position of the brace that
\* closes the match (0: no match from there)
RECURSIVE BalancedFrom(_, _)
BalancedFrom(t, j) ==
    IF j = 0 THEN 0
    ELSE IF t[j] = "}" THEN j
    ELSE LET k == NextBrace(t, j + 1) IN
         IF k = 0 \/ t[k] # "}" THEN 0 ELSE BalancedFrom(t, NextBrace(t, k + 1))

\* re.search with that expression: the leftmost match ([found, text])
BalancedMatch(t) ==
    LET starts == {i \in 1..Len(t) :
                      t[i] = "{" /\ BalancedFrom(t, NextBrace(t, i + 1)) # 0} IN
    IF starts = {} THEN [found |-> FALSE, text |-> <<>>]
    ELSE LET i == CHOOSE a \in starts : \A b \in starts : a <= b IN
         [found |-> TRUE, text |-> SubSeq(t, i, BalancedFrom(t, NextBrace(t, i + 1)))]

\* the second regular expression, an opening brace, anything, a closing
\* brace, with re.DOTALL: from the first "{" to the last "}"
GreedyMatch(t) ==
    LET opens == {i \in 1..Len(t) : t[i] = "{"}
        closes == {i \in 1..Len(t) : t[i] = "}"}
    IN
    IF opens = {} \/ closes = {} THEN [found |-> FALSE, text |-> <<>>]
    ELSE LET i == CHOOSE a \in opens : \A b \in opens : a <= b
             j == CHOOSE a \in closes : \A b \in closes : a >= b
         IN IF i < j THEN [found |-> TRUE, text |-> SubSeq(t, i, j)]
            ELSE [found |-> FALSE, text |-> <<>>]

\* the fence markers removed from the two ends of the response
StripFences(t) ==
    LET head == IF t # <<>> /\ t[1] \in {FenceJson, Fence} THEN Tail(t) ELSE t IN
    IF head # <<>> /\ head[Len(head)] = Fence
    THEN SubSeq(head, 1, Len(head) - 1) ELSE head

\* _get_empty_extraction, as typed values
get_empty_extraction ==
    Validated(JNull, JArray(<<>>), JObject(EmptyDict), JArray(<<>>),
              JObject(EmptyDict), JArray(<<>>))

\* what a method gives back: a value, or an exception
Returns(v) == [raised |-> FALSE, value |-> v]
Raises == [raised |-> TRUE, value |-> get_empty_extraction]

\* lines 155-156: the name is replaced when it is truthy and not a str
validate_name(v) == IF JTruthy(v) /\ v.type # "string" THEN JNull ELSE v

\* _validate_extraction(data); data.get raises AttributeError unless data is
\* a dict
validate_extraction(data) ==
    IF data.type # "object" THEN Raises
    ELSE LET get(k, default) ==
                 IF k \in DOMAIN data.members THEN data.members[k] ELSE default
             list(v) == IF v.type # "array" THEN JArray(<<>>) ELSE v
             dict(v) == IF v.type # "object" THEN JObject(EmptyDict) ELSE v
         IN Returns(Validated(
                validate_name(get("name", JNull)),
                list(get("personality_traits", JArray(<<>>))),
                dict(get("preferences", JObject(EmptyDict))),
                list(get("goals", JArray(<<>>))),
                dict(get("important_dates", JObject(EmptyDict))),
                list(get("facts", JArray(<<>>)))))

\* _parse_json_response(response)
parse_json_response(response) ==
    IF response = <<>> THEN Returns(get_empty_extraction)
    ELSE LET text == StripFences(response)
             direct == json_loads(text)
             json_match == BalancedMatch(text)
             json_match2 == GreedyMatch(text)
         IN
         IF direct.ok THEN validate_extraction(direct.value)
         ELSE IF json_match.found /\ json_loads(json_match.text).ok
         THEN validate_extraction(json_loads(json_match.text).value)
         ELSE IF json_match.found /\ json_match2.found
                 /\ json_loads(json_match2.text).ok
         THEN validate_extraction(json_loads(json_match2.text).value)
         ELSE Returns(get_empty_extraction)

\* a variant whose handler catches json.JSONDecodeError only
extract_catching_decode_errors_only(outcome) ==
    IF outcome.raises THEN Raises ELSE parse_json_response(outcome.response)

\* extract_user_info from the model call on: every exception of the call and
\* of the parse ends in the empty extraction
extract_from_model_outcome(outcome) ==
    IF outcome.raises THEN Returns(get_empty_extraction)
    ELSE LET parsed == parse_json_response(outcome.response) IN
         IF parsed.raised THEN Returns(get_empty_extraction) ELSE parsed

\* the six keys of an extraction
ExtractionKeys ==
    {"name", "personality_traits", "preferences", "goals", "important_dates",
     "facts"}

\* values of every JSON type, empty and not
JsonValues ==
    {JNull, JString(""), JString("Alex"), JNumber("0"), JNumber("42"),
     JBool("false"), JBool("true"), JArray(<<>>), JArray(<<JString("creative")>>),
     JObject(EmptyDict), JObject([music |-> JString("jazz")])}

\* a well-typed object with all six keys
WellTyped ==
    [name |-> JString("Alex"),
     personality_traits |-> JArray(<<JString("creative")>>),
     preferences |-> JObject([music |-> JString("jazz")]),
     goals |-> JArray(<<JString("learn guitar")>>),
     important_dates |-> JObject([birthday |-> JString("1995-03-15")]),
     facts |-> JArray(<<JString("has a cat")>>)]

\* the parsed objects: one key with a value of any type, alone or among
\* well-typed values for the other keys
ParsedObjects ==
    {JObject([k \in {key} |-> v]) : key \in ExtractionKeys, v \in JsonValues}
        \cup {JObject([WellTyped EXCEPT ![key] = v]) :
                 key \in ExtractionKeys, v \in JsonValues}

InitExtract ==
    /\ InitIdleCadence /\ InitIdleMerge /\ InitIdleSession
    /\ InitIdleWindow /\ InitIdlePrompt
    /\ eCall \in {[op |-> "extract_user_info", done |-> FALSE, outcome |-> o,
                   data |-> JNull] : o \in ModelOutcomes}
            \cup {[op |-> "_validate_extraction", done |-> FALSE,
                   outcome |-> [raises |-> FALSE, response |-> <<>>],
                   data |-> d] : d \in ParsedObjects}
    /\ eResult = Raises

ExtractUserInfo ==
    /\ eCall.op = "extract_user_info" /\ ~eCall.done
    /\ eCall' = [eCall EXCEPT !.done = TRUE]
    /\ eResult' = extract_from_model_outcome(eCall.outcome)
    /\ UNCHANGED <<cadenceVars, mergeVars, sessionVars, windowVars, promptVars>>

ValidateExtraction ==
    /\ eCall.op = "_validate_extraction" /\ ~eCall.done
    /\ eCall' = [eCall EXCEPT !.done = TRUE]
    /\ eResult' = validate_extraction(eCall.data)
    /\ UNCHANGED <<cadenceVars, mergeVars, sessionVars, windowVars, promptVars>>

NextExtract == ExtractUserInfo \/ ValidateExtraction

SpecExtract == InitExtract /\ [][NextExtract]_vars

\* the texts a strategy of _parse_json_response would hand to json.loads
Candidates(response) ==
    LET text == StripFences(response) IN
    {text} \cup {m.text : m \in {x \in {BalancedMatch(text), GreedyMatch(text)} : x.found}}

YieldsObject(response) ==
    \E c \in Candidates(response) : json_loads(c).ok /\ json_loads(c).value.type = "object"

\* C15: extract never raises, and for a failing model call and for every
\* response that yields no JSON object under any of the parse strategies it
\* returns the empty extraction.
C15_NoObjectGivesEmptyExtraction ==
    (eCall.op = "extract_user_info" /\ eCall.done)
        => /\ ~eResult.raised
           /\ (eCall.outcome.raises \/ ~YieldsObject(eCall.outcome.response))
                => eResult.value = get_empty_extraction

\* the response was the valid JSON ["Alex"], which is not an object
C15_Witness ==
    /\ eCall.op = "extract_user_info" /\ eCall.done
    /\ eCall.outcome.response = <<"[", StrAlex, "]">>
    /\ eResult = Returns(get_empty_extraction)

ListKeys == {"personality_traits", "goals", "facts"}
DictKeys == {"preferences", "important_dates"}

\* the type the statement of C16 gives each field, and its empty default
HasFieldType(key, v) ==
    CASE key = "name" -> v.type \in {"string", "null"}
      [] key \in ListKeys -> v.type = "array"
      [] key \in DictKeys -> v.type = "object"

\* C16: the result of validating a parsed object has a text or null name,
\* lists for the three list fields and mappings for the two mapping fields;
\* a field of another type has its empty default and every other field
\* has the value the object gave it.
C16_FieldsHaveTheirTypes ==
    (eCall.op = "_validate_extraction" /\ eCall.done)
        => /\ ~eResult.raised
           /\ \A key \in ExtractionKeys :
                 LET given == key \in DOMAIN eCall.data.members
                     v == eCall.data.members[key]
                 IN /\ HasFieldType(key, eResult.value[key])
                    /\ eResult.value[key] =
                           IF given /\ HasFieldType(key, v) THEN v
                           ELSE get_empty_extraction[key]

----------------------------------------------------------------------------
(* SpecWindow: get_relevant_history (backend/app/main.py) and               *)
(* DesktopPetApp._get_relevant_history (src/main.py) on one history and     *)
(* one message. A message is its sequence of characters.                    *)

\* the most words of a message and the most turns of a history
MaxWords == 31
MaxHistory == 17

\* the full-width question mark
FullWidthQuestionMark == "<fullwidth ?>"

\* the words of the list in lines 312-313 (desktop 483-484); "<ni>", "<hao>"
\* and "<hai>" are the characters of the two Chinese greetings
GreetingWords ==
    {<<"h", "e", "l", "l", "o">>, <<"h", "i">>, <<"<ni>", "<hao>">>, <<"<hai>">>,
     <<"h", "e", "y">>}

\* str.lower, on the capitals the messages use
LowerChar(c) == CASE c = "H" -> "h" [] c = "I" -> "i" [] OTHER -> c
Lower(text) == [i \in 1..Len(text) |-> LowerChar(text[i])]

\* "word in text" for two strings
IsSubstring(word, text) ==
    \E i \in 1..(Len(text) - Len(word) + 1) :
        SubSeq(text, i, i + Len(word) - 1) = word

\* len(text.split())
WordCount(text) ==
    Cardinality({i \in 1..Len(text) :
                    text[i] # " " /\ (i = 1 \/ text[i - 1] = " ")})

is_greeting(message) == \E word \in GreetingWords : IsSubstring(word, Lower(message))
is_simple(message) == WordCount(message) < 10
is_question(message) ==
    \E i \in 1..Len(message) : message[i] \in {"?", FullWidthQuestionMark}

\* a variant that takes every short message as simple talk
RelevantCountQuestionIgnored(message) ==
    IF is_greeting(message) \/ is_simple(message) THEN 3
    ELSE IF WordCount(message) < 30 THEN 8 ELSE 15

\* a variant that keeps two turns for a greeting or simple talk
RelevantCountTwo(message) ==
    IF is_greeting(message) \/ (is_simple(message) /\ ~is_question(message)) THEN 2
    ELSE IF WordCount(message) < 30 THEN 8 ELSE 15

\* the branch of lines 317-322 (desktop 488-497): how many turns are kept
RelevantCount(message) ==
    IF is_greeting(message) \/ (is_simple(message) /\ ~is_question(message)) THEN 3
    ELSE IF WordCount(message) < 30 THEN 8 ELSE 15

\* backend/app/main.py: history[-n:] if len(history) > n else history
get_relevant_history(history, current_message) ==
    LET n == RelevantCount(current_message) IN
    IF Len(history) > n THEN LastN(history, n) ELSE history

\* src/main.py: self.conversation_history[-n:]
desktop_get_relevant_history(history, current_message) ==
    LastN(history, RelevantCount(current_message))

\* words, and the message they make with one space between them
Words ==
    [hello |-> <<"h", "e", "l", "l", "o">>,
     Hello |-> <<"H", "e", "l", "l", "o">>,
     HI |-> <<"H", "I">>,
     nihao |-> <<"<ni>", "<hao>">>,
     this |-> <<"t", "h", "i", "s">>,
     why |-> <<"w", "h", "y", "?">>,
     so |-> <<"s", "o", FullWidthQuestionMark>>,
     ok |-> <<"o", "k">>]

RECURSIVE Join(_)
Join(words) ==
    IF words = <<>> THEN <<>>
    ELSE IF Len(words) = 1 THEN words[1]
    ELSE words[1] \o <<" ">> \o Join(Tail(words))

\* the words a message starts with; the rest of it is "ok" repeated
Heads ==
    {<<>>, <<Words.hello>>, <<Words.Hello>>, <<Words.HI>>, <<Words.nihao>>,
     <<Words.this>>, <<Words.why>>, <<Words.so>>, <<Words.hello, Words.why>>,
     <<Words.this, Words.why>>}

WindowMessages ==
    {Join(head \o [i \in 1..n |-> Words.ok]) :
        head \in Heads, n \in 0..(MaxWords - 2)}

\* a history of n turns, each with its position as content
NumberedHistory(n) ==
    [i \in 1..n |-> Turn(IF i % 2 = 1 THEN "user" ELSE "assistant", i)]

InitWindow ==
    /\ InitIdleCadence /\ InitIdleMerge /\ InitIdleSession
    /\ InitIdleExtract /\ InitIdlePrompt
    /\ wCall \in {[op |-> version, done |-> FALSE, history |-> NumberedHistory(n),
                   message |-> m] :
                     version \in {"get_relevant_history", "_get_relevant_history"},
                     n \in 0..MaxHistory, m \in WindowMessages}
    /\ wResult = <<>>

WindowApi ==
    /\ wCall.op = "get_relevant_history" /\ ~wCall.done
    /\ wCall' = [wCall EXCEPT !.done = TRUE]
    /\ wResult' = get_relevant_history(wCall.history, wCall.message)
    /\ UNCHANGED <<cadenceVars, mergeVars, sessionVars, extractVars, promptVars>>

WindowDesktop ==
    /\ wCall.op = "_get_relevant_history" /\ ~wCall.done
    /\ wCall' = [wCall EXCEPT !.done = TRUE]
    /\ wResult' = desktop_get_relevant_history(wCall.history, wCall.message)
    /\ UNCHANGED <<cadenceVars, mergeVars, sessionVars, extractVars, promptVars>>

NextWindow == WindowApi \/ WindowDesktop

SpecWindow == InitWindow /\ [][NextWindow]_vars

WindowDone == wCall.op # "none" /\ wCall.done

\* list holds the last n items of history, all of them when it has fewer
IsLast(list, n, history) ==
    /\ Len(list) = IF Len(history) < n THEN Len(history) ELSE n
    /\ \A i \in 1..Len(list) : list[i] = history[Len(history) - Len(list) + i]

C18_ShortHistoryReturnedWhole ==
    (WindowDone /\ Len(wCall.history) <= 3) => wResult = wCall.history

\* a history of 3 turns came back whole for a question of 30 words
C18_Witness ==
    /\ WindowDone
    /\ Len(wCall.history) = 3
    /\ WordCount(wCall.message) = 30
    /\ is_question(wCall.message)
    /\ wResult = wCall.history

\* one of the words of the message, separated by spaces and compared in
\* lower case, is a greeting word
HasGreetingWord(message) ==
    LET text == Lower(message) IN
    \E i \in 1..Len(text), j \in 1..Len(text) :
        /\ i <= j
        /\ (i = 1 \/ text[i - 1] = " ")
        /\ (j = Len(text) \/ text[j + 1] = " ")
        /\ SubSeq(text, i, j) \in GreetingWords

\* C24: a message is a greeting exactly when one of its words is a greeting
\* word in any case: a greeting gets the last 3 turns, and a message that
\* holds a greeting word only inside a longer word gets the window of its
\* word count and question status.
C24_GreetingIsAWholeWord ==
    WindowDone =>
        LET m == wCall.message
            n == IF HasGreetingWord(m) \/ (WordCount(m) < 10 /\ ~is_question(m)) THEN 3
                 ELSE IF WordCount(m) < 30 THEN 8 ELSE 15
        IN IsLast(wResult, n, wCall.history)

----------------------------------------------------------------------------
(* SpecPrompt: build_system_prompt (backend/app/main.py and                 *)
(* src/api/server.py) and DesktopPetApp._build_system_prompt (src/main.py)  *)
(* on one configuration.                                                    *)
(* A prompt is the list of parts the function joins with a blank line; a    *)
(* part is the list of the texts it is made of, with the number of the      *)
(* block of the function that appended it.                                  *)

Part(block, text) == [block |-> block, text |-> text]

\* the headers of the three directives, the label of the personality, the
\* sentence used without one, and an output example that holds that label
ExampleHeader ==
    "CRITICAL - Output Example & Performance Requirements (MUST FOLLOW EXACTLY):"
AdditionalNotesHeader == "CRITICAL - Additional Notes (MUST FOLLOW):"
ResponseGuidelinesHeader == "CRITICAL - Response Guidelines (MUST FOLLOW):"
PersonalityLabel == "Personality: "
GenericPersonality == "You are a friendly and supportive AI companion."
ExampleWithLabel == "Personality: terse. Reply in one short line."

\* any("Personality:" in p for p in parts)
HasPersonalityLabel(parts) ==
    \E i \in 1..Len(parts) :
        \E j \in 1..Len(parts[i].text) :
            parts[i].text[j] \in {PersonalityLabel, ExampleWithLabel}

\* block 1: the output example, then the notes under the header that
\* depends on it
CriticalParts(cfg) ==
    (IF cfg.output_example # ""
     THEN <<Part(1, <<ExampleHeader, cfg.output_example>>)>> ELSE <<>>)
    \o (IF cfg.notes = "" THEN <<>>
        ELSE IF cfg.output_example # ""
        THEN <<Part(1, <<AdditionalNotesHeader, cfg.notes>>)>>
        ELSE <<Part(1, <<ResponseGuidelinesHeader, cfg.notes>>)>>)

\* has_output_example after block 1
has_output_example(cfg) == cfg.output_example # "" \/ cfg.notes # ""

\* block 2 after the parts before it: the labelled fields that are not
\* empty, then the fallback when no part so far holds "Personality:"
CharacterParts(cfg, simple, before) ==
    LET field(key, label) ==
            IF cfg[key] # "" THEN <<Part(2, <<label, cfg[key]>>)>> ELSE <<>>
        labelled ==
            field("personality", PersonalityLabel) \o field("backstory", "Backstory: ")
                \o field("traits", "Traits: ") \o field("preferences", "Preferences: ")
                \o field("worldview_background", "Worldview Background: ")
                \o field("worldview_setting", "Worldview Setting: ")
    IN
    IF HasPersonalityLabel(before \o labelled) THEN labelled
    ELSE IF Truthy(simple) THEN labelled \o <<Part(2, <<PersonalityLabel, simple>>)>>
    ELSE labelled \o <<Part(2, <<GenericPersonality>>)>>

\* sep.join(list)
RECURSIVE JoinWith(_, _)
JoinWith(list, sep) ==
    IF list = <<>> THEN <<>>
    ELSE IF Len(list) = 1 THEN list
    ELSE <<list[1], sep>> \o JoinWith(Tail(list), sep)

\* list[:n]
FirstN(list, n) == IF Len(list) > n THEN SubSeq(list, 1, n) ELSE list

\* block 3; the backend adds the facts, the desktop does not
ProfileParts(pm, with_facts) ==
    IF ~pm.present THEN <<>>
    ELSE LET profile == pm.profile
             entry(label, list, n) ==
                 IF list # <<>>
                 THEN <<<<label>> \o JoinWith(FirstN(list, n), ", ")>> ELSE <<>>
             profile_summary ==
                 (IF Truthy(profile.name) THEN <<<<"User: ", profile.name>>>> ELSE <<>>)
                 \o entry("Traits: ", profile.personality_traits, 3)
                 \o entry("Goals: ", profile.goals, 3)
                 \o (IF with_facts THEN entry("Important facts: ", profile.facts, 5)
                     ELSE <<>>)
             flat[i \in 0..Len(profile_summary)] ==
                 IF i = 0 THEN <<>>
                 ELSE IF i = 1 THEN profile_summary[1]
                 ELSE flat[i - 1] \o <<" | ">> \o profile_summary[i]
         IN IF profile_summary = <<>> THEN <<>>
            ELSE <<Part(3, flat[Len(profile_summary)])>>

\* a variant that takes the last of the hits above the threshold
MemoryPartsLastHit(memory, threshold) ==
    IF ~memory.vector_store \/ memory.last_user_msg = "" THEN <<>>
    ELSE LET high_relevance_convs ==
                 SelectSeq(memory.hits, LAMBDA conv : conv.relevance_score > threshold)
             conv == high_relevance_convs[Len(high_relevance_convs)]
         IN IF high_relevance_convs = <<>> THEN <<>>
            ELSE <<Part(4, <<"Relevant memory:", "U: ", conv.user_message, "...",
                             "A: ", conv.ai_response, "...">>)>>

\* block 4: the first hit whose score, in hundredths, is above the threshold
MemoryParts(memory, threshold) ==
    IF ~memory.vector_store \/ memory.last_user_msg = "" THEN <<>>
    ELSE LET high_relevance_convs ==
                 SelectSeq(memory.hits, LAMBDA conv : conv.relevance_score > threshold)
         IN IF high_relevance_convs = <<>> THEN <<>>
            ELSE <<Part(4, <<"Relevant memory:", "U: ",
                             high_relevance_convs[1].user_message, "...", "A: ",
                             high_relevance_convs[1].ai_response, "...">>)>>

\* a variant in which only the output example silences the guidelines
GuidelinePartsUnlessExample(cfg, max_tokens) ==
    IF cfg.output_example # "" THEN <<>>
    ELSE <<Part(5, <<"Guidelines:", "2-4", "80-120">>)>>

\* block 5
GuidelineParts(cfg, max_tokens) ==
    IF has_output_example(cfg) THEN <<>>
    ELSE IF max_tokens <= 100 THEN <<Part(5, <<"Guidelines:", "1-2", "30-50">>)>>
    ELSE IF max_tokens <= 200 THEN <<Part(5, <<"Guidelines:", "2-3", "50-80">>)>>
    ELSE <<Part(5, <<"Guidelines:", "2-4", "80-120">>)>>

\* a variant that appends the directives after the character
build_system_prompt_character_first(c) ==
    LET character == CharacterParts(c.character_config, c.personality, <<>>) IN
    character \o CriticalParts(c.character_config)
        \o ProfileParts(c.profile_manager, TRUE) \o MemoryParts(c.memory, 60)
        \o GuidelineParts(c.character_config, c.max_tokens)

\* build_system_prompt of the backend
build_system_prompt(c) ==
    LET critical == CriticalParts(c.character_config) IN
    critical \o CharacterParts(c.character_config, c.personality, critical)
        \o ProfileParts(c.profile_manager, TRUE) \o MemoryParts(c.memory, 60)
        \o GuidelineParts(c.character_config, c.max_tokens)

\* DesktopPetApp._build_system_prompt
desktop_build_system_prompt(c) ==
    LET critical == CriticalParts(c.character_config) IN
    critical \o CharacterParts(c.character_config, c.personality, critical)
        \o ProfileParts(c.profile_manager, FALSE) \o MemoryParts(c.memory, 70)
        \o GuidelineParts(c.character_config, c.max_tokens)

\* build_system_prompt of src/api/server.py
server_build_system_prompt(c) ==
    LET critical == CriticalParts(c.character_config) IN
    critical \o CharacterParts(c.character_config, c.personality, critical)
        \o ProfileParts(c.profile_manager, FALSE) \o MemoryParts(c.memory, 70)
        \o GuidelineParts(c.character_config, c.max_tokens)

\* load_character_config: the fields the functions read
CharacterConfigs ==
    {[output_example |-> e, notes |-> n, personality |-> p, backstory |-> b,
      traits |-> r.traits, preferences |-> r.preferences,
      worldview_background |-> r.worldview_background,
      worldview_setting |-> r.worldview_setting] :
        e \in {"", "Reply in one short line.", ExampleWithLabel},
        n \in {"", "Keep it under 20 words."},
        p \in {"", "a cheerful cat"},
        b \in {"", "raised in a library"},
        r \in {[traits |-> "", preferences |-> "", worldview_background |-> "",
                worldview_setting |-> ""],
               [traits |-> "playful", preferences |-> "tea",
                worldview_background |-> "a floating city",
                worldview_setting |-> "the year 3000"]}}

\* profile_manager: None, or one with a profile
PromptProfiles ==
    {[present |-> FALSE, profile |-> NewUserProfile],
     [present |-> TRUE, profile |-> NewUserProfile],
     [present |-> TRUE, profile |-> [NewUserProfile EXCEPT !.name = "Alex"]],
     [present |-> TRUE, profile |-> [NewUserProfile EXCEPT !.facts = <<"has a cat">>]],
     [present |-> TRUE,
      profile |-> [NewUserProfile EXCEPT
                      !.name = "Alex",
                      !.personality_traits = <<"creative", "curious", "kind", "shy">>,
                      !.goals = <<"learn guitar">>,
                      !.facts = <<"has a cat">>]]}

\* one result of search_relevant_conversations: the stored exchange of
\* message m with its score in hundredths
Hit(score, m) ==
    [user_message |-> m, ai_response |-> Reply(m), relevance_score |-> score]

\* the vector store, the last user message of the history and what the
\* search returns, best first
PromptMemories ==
    {[vector_store |-> FALSE, last_user_msg |-> "m1", hits |-> <<>>],
     [vector_store |-> TRUE, last_user_msg |-> "", hits |-> <<Hit(80, "m1")>>],
     [vector_store |-> TRUE, last_user_msg |-> "m1", hits |-> <<>>],
     [vector_store |-> TRUE, last_user_msg |-> "m1",
      hits |-> <<Hit(80, "m1"), Hit(55, "m2")>>],
     [vector_store |-> TRUE, last_user_msg |-> "m1",
      hits |-> <<Hit(80, "m2"), Hit(75, "m1")>>],
     [vector_store |-> TRUE, last_user_msg |-> "m1",
      hits |-> <<Hit(65, "m1"), Hit(55, "m2")>>]}

PromptCalls ==
    [op : {"build_system_prompt", "_build_system_prompt", "server.build_system_prompt"},
     done : {FALSE},
     character_config : CharacterConfigs, personality : {None, "a friendly pet"},
     profile_manager : PromptProfiles, memory : PromptMemories,
     max_tokens : {100, 150, 250}]

InitPrompt ==
    /\ InitIdleCadence /\ InitIdleMerge /\ InitIdleSession
    /\ InitIdleExtract /\ InitIdleWindow
    /\ pCall \in PromptCalls
    /\ pResult = <<>>

PromptApi ==
    /\ pCall.op = "build_system_prompt" /\ ~pCall.done
    /\ pCall' = [pCall EXCEPT !.done = TRUE]
    /\ pResult' = build_system_prompt(pCall)
    /\ UNCHANGED <<cadenceVars, mergeVars, sessionVars, extractVars, windowVars>>

PromptDesktop ==
    /\ pCall.op = "_build_system_prompt" /\ ~pCall.done
    /\ pCall' = [pCall EXCEPT !.done = TRUE]
    /\ pResult' = desktop_build_system_prompt(pCall)
    /\ UNCHANGED <<cadenceVars, mergeVars, sessionVars, extractVars, windowVars>>

PromptServer ==
    /\ pCall.op = "server.build_system_prompt" /\ ~pCall.done
    /\ pCall' = [pCall EXCEPT !.done = TRUE]
    /\ pResult' = server_build_system_prompt(pCall)
    /\ UNCHANGED <<cadenceVars, mergeVars, sessionVars, extractVars, windowVars>>

NextPrompt == PromptApi \/ PromptDesktop \/ PromptServer

SpecPrompt == InitPrompt /\ [][NextPrompt]_vars

PromptDone == pCall.op # "none" /\ pCall.done

\* the blocks: 1 critical directives, 2 character description, 3 profile
\* summary, 4 retrieved memory, 5 default guidelines
InBlockOrder ==
    \A i \in 1..Len(pResult), j \in 1..Len(pResult) :
        i < j => pResult[i].block <= pResult[j].block

Emitted(block) == \E i \in 1..Len(pResult) : pResult[i].block = block

\* the source data of blocks 1, 3 and 4 is empty
NoDirective == pCall.character_config.output_example = "" /\ pCall.character_config.notes = ""

NoProfileData ==
    \/ ~pCall.profile_manager.present
    \/ LET profile == pCall.profile_manager.profile IN
       /\ profile.name \in {None, ""}
       /\ profile.personality_traits = <<>>
       /\ profile.goals = <<>>
       /\ profile.facts = <<>>

NoMemoryData == ~pCall.memory.vector_store \/ pCall.memory.hits = <<>>

\* the configuration holds no character field and there is no stored
\* personality
NoCharacterData ==
    /\ \A key \in {"personality", "backstory", "traits", "preferences",
                   "worldview_background", "worldview_setting"} :
           pCall.character_config[key] = ""
    /\ pCall.personality \in {None, ""}

\* C19 as stated: the parts come in the order critical directives, character
\* description, profile summary, retrieved memory, default guidelines, and
\* each of them is left out when its source data is empty.
C19_SectionsOrderedOmittedWhenEmpty ==
    PromptDone =>
        /\ InBlockOrder
        /\ NoDirective => ~Emitted(1)
        /\ NoCharacterData => ~Emitted(2)
        /\ NoProfileData => ~Emitted(3)
        /\ NoMemoryData => ~Emitted(4)

\* C19, amended: the parts come in that order; the directives, the profile
\* summary and the memory are left out when their source data is empty; with
\* no character data the character description is the generic sentence, or
\* is left out when a directive holds the text "Personality:".
C19_SectionsOrderedCharacterFallsBack ==
    PromptDone =>
        /\ InBlockOrder
        /\ NoDirective => ~Emitted(1)
        /\ NoProfileData => ~Emitted(3)
        /\ NoMemoryData => ~Emitted(4)
        /\ NoCharacterData =>
              LET character == SelectSeq(pResult, LAMBDA part : part.block = 2) IN
              IF pCall.character_config.output_example = ExampleWithLabel
              THEN character = <<>>
              ELSE character = <<Part(2, <<GenericPersonality>>)>>

\* with no character data the prompt was a directive, the generic sentence,
\* the profile summary and the memory
C19_Witness ==
    /\ PromptDone
    /\ NoCharacterData
    /\ Len(pResult) = 4
    /\ pResult[1].block = 1
    /\ pResult[2] = Part(2, <<GenericPersonality>>)
    /\ pResult[3].block = 3
    /\ pResult[4].block = 4

\* the parts that start with a header marked CRITICAL
CriticalMarkers ==
    {i \in 1..Len(pResult) :
        pResult[i].text[1] \in
            {ExampleHeader, AdditionalNotesHeader, ResponseGuidelinesHeader}}

\* C20: the default guidelines are emitted exactly when neither
\* output_example nor notes is present; with output_example and without
\* notes the prompt has one part under a CRITICAL header and no default
\* guidelines.
C20_GuidelinesIffNoDirective ==
    PromptDone =>
        /\ Emitted(5) <=> NoDirective
        /\ (pCall.character_config.output_example # ""
                /\ pCall.character_config.notes = "")
             => (Cardinality(CriticalMarkers) = 1 /\ ~Emitted(5))

\* a desktop prompt built with an output example and no notes
C20_Witness ==
    /\ PromptDone
    /\ pCall.op = "_build_system_prompt"
    /\ pCall.character_config.output_example = "Reply in one short line."
    /\ pCall.character_config.notes = ""
    /\ pResult[1] = Part(1, <<ExampleHeader, "Reply in one short line.">>)
    /\ Cardinality(CriticalMarkers) = 1

\* the threshold of the version that was called, in hundredths
Threshold == IF pCall.op = "build_system_prompt" THEN 60 ELSE 70

\* the search ran: there is a store and a last user message
Searched == pCall.memory.vector_store /\ pCall.memory.last_user_msg # ""

\* C26: the build_system_prompt of either API server gives, for the same
\* character configuration, profile, search results and max_tokens, the
\* prompt of DesktopPetApp._build_system_prompt.
C26_ApiPromptIsDesktopPrompt ==
    (PromptDone /\ pCall.op \in {"build_system_prompt", "server.build_system_prompt"})
        => pResult = desktop_build_system_prompt(pCall)

\* C21: of search results ordered best first the prompt shows at most one,
\* the best hit whose score is above the threshold, and no memory part when
\* no score is above it; scores 0.8 and 0.55 with threshold 0.6 show the hit
\* of 0.8 alone.
C21_OnlyBestHitAboveThreshold ==
    (PromptDone /\ Searched) =>
        LET hits == pCall.memory.hits
            above == {i \in 1..Len(hits) : hits[i].relevance_score > Threshold}
            shown == SelectSeq(pResult, LAMBDA part : part.block = 4)
        IN
        /\ Len(shown) <= 1
        /\ above = {} <=> shown = <<>>
        /\ above # {} =>
              \E best \in above :
                  /\ \A i \in above : hits[best].relevance_score >= hits[i].relevance_score
                  /\ shown[1].text[3] = hits[best].user_message
                  /\ shown[1].text[6] = hits[best].ai_response
                  /\ \A i \in 1..Len(hits) :
                         i # best => \A j \in 1..Len(shown[1].text) :
                                         shown[1].text[j] # hits[i].user_message

\* the backend got scores 0.8 and 0.55 and shows the exchange of the first
C21_Witness ==
    /\ PromptDone
    /\ pCall.op = "build_system_prompt"
    /\ pCall.memory.hits = <<Hit(80, "m1"), Hit(55, "m2")>>
    /\ \E i \in 1..Len(pResult) :
           pResult[i] = Part(4, <<"Relevant memory:", "U: ", "m1", "...", "A: ",
                                  "reply to m1", "...">>)

----------------------------------------------------------------------------
(* The size of the history, checked under SpecLongRun.                     *)

\* the step displayed the reply to message m, an error text, the check-in
DisplayedReply(m) == dShown' = Append(dShown, Shown(Reply(m), FALSE))
DisplayedError(e) == dShown' = Append(dShown, Shown(e, FALSE))
DisplayedCheckIn == dShown' = Append(dShown, Shown(check_in, FALSE))

\* C22: after any sequence of Completed, Failed and proactive turns and of
\* restarts the persisted history holds at most 20 turns, and every write
\* leaves in the file the 20 most recent turns, in order, of the history
\* in memory at that time.
C22_PersistedIsLastTwenty ==
    /\ [](Len(dHistFile) <= HistoryLimit)
    /\ [][dHistFile' # dHistFile => IsLast(dHistFile', HistoryLimit, dHistory')]_vars

\* a Failed turn left 21 turns in memory and the last 20 of them in the file
C22_Witness ==
    /\ Len(dHistory) = HistoryLimit + 1
    /\ dHistory[Len(dHistory)].content \in ErrorTexts
    /\ Len(dHistFile) = HistoryLimit
    /\ \A i \in 1..HistoryLimit : dHistFile[i] = dHistory[i + 1]

\* C27, as the code has it: a Completed turn leaves the last 20 turns of the
\* history and its reply in memory, at most 20 turns; a Failed turn and a
\* proactive message append their turn and trim nothing.
C27_TrimmedWhenTurnCompletes ==
    [][/\ \A m \in DeskMessages :
              DisplayedReply(m) =>
                  /\ Len(dHistory') <= HistoryLimit
                  /\ IsLast(dHistory', HistoryLimit,
                            Append(dHistory, Turn("assistant", Reply(m))))
       /\ \A e \in ErrorTexts :
              DisplayedError(e) => dHistory' = Append(dHistory, Turn("assistant", e))
       /\ DisplayedCheckIn => dHistory' = Append(dHistory, ProactiveTurn)]_vars

\* a Completed turn on a history of 21 turns, the last of them the user
\* turn, left 20 turns: the session is Idle and an earlier turn has failed
C27_Witness ==
    /\ dWorkers = <<>>
    /\ Len(dHistory) = HistoryLimit
    /\ dHistory[Len(dHistory)].content = Reply("m1")
    /\ \E i \in 1..Len(dHistory) : dHistory[i].content \in ErrorTexts

\* C23: with the memory index available, every add succeeding, a turn that
\* reaches Completed adds exactly one entry, which holds its response, and a
\* Failed turn, like every other step, adds none; the entries stored before
\* are neither changed nor removed. So the count of the collection grows by
\* one with every Completed turn.
C23_OneEntryPerCompletedTurn ==
    [][/\ \A m \in DeskMessages :
              DisplayedReply(m) =>
                  /\ Len(dMemory') = Len(dMemory) + 1
                  /\ dMemory'[Len(dMemory')].ai_response = Reply(m)
                  /\ SubSeq(dMemory', 1, Len(dMemory)) = dMemory
       /\ (~\E m \in DeskMessages : DisplayedReply(m)) => dMemory' = dMemory]_vars

\* after the nine turns of the earlier run one turn has failed and one has
\* completed: ten entries
C23_Witness ==
    /\ Len(dMemory) = 10
    /\ dMemory[10] = MemoryEntry("m1", Reply("m1"))
    /\ \E i \in 1..Len(dShown) : dShown[i].text \in ErrorTexts
    /\ \E i \in 1..Len(dShown) : dShown[i].text = Reply("m1")

====
